---- MODULE Spec2Model ----
(***************************************************************************)
(* A model of xgate: the hosts-file reconciler (xgate/hosts.py), the       *)
(* activity matcher (xgate/process_gate.py), the decision engine           *)
(* (xgate/policy.py) and the reconciliation loop (xgate/daemon.py).        *)
(*                                                                         *)
(* A file's text is a sequence of atoms.  "NL" is the newline character,   *)
(* "FF" stands for the other characters str.splitlines() treats as a line  *)
(* boundary (form feed, vertical tab, ...), "SP" is a blank, "START" and   *)
(* "END" are the two marker texts, "x" is any other text, and "V4" d /     *)
(* "V6" are the sinkhole prefixes "0.0.0.0 " / "::1 " of an entry line.     *)
(* A line is a sequence of atoms without a line boundary; a domain is the  *)
(* sequence of its labels, <<"www", "x.com">> being "www.x.com".           *)
(***************************************************************************)
EXTENDS Integers, Sequences, FiniteSets, TLC

VARIABLES
    hosts,      \* text of the hosts file
    calls,      \* SpecHosts: the apply_hosts calls made so far
    platform,   \* platform.system()
    clock,      \* time.time(), in seconds
    gate,       \* the ProcessGate instance
    polled,     \* the inputs and the result of the last ProcessGate.poll
    pc,         \* run_loop: "boot", "loop", "exited", "raised"
    stop,       \* run_loop: the flag the signal handler sets
    once,       \* run_loop: single-shot mode
    cfgFile,    \* the configuration file
    last_block, \* run_loop: last_block
    last_domains, \* run_loop: last_domains
    stateFile,  \* the state snapshot file
    tick,       \* what the last tick computed and did
    prevTick,   \* the same for the tick before it
    fs,         \* SpecWrite: the files on disk, by path
    writer,     \* SpecWrite: the write in progress and how far it got
    observed,   \* SpecWrite: what an outside reader last read
    environ,    \* os.environ: the two path overrides
    decided,    \* SpecPolicy: the last block_decision call and what it returned
    prevDecided, \* SpecPolicy: the call before it
    windowed,   \* SpecWindow: the last is_time_block_active call and its result
    expanded,   \* SpecExpand: the _expand_blocklist call and its result
    parsed,     \* SpecDuration: the parse_duration_seconds call and its result
    probed,     \* SpecProbe: the hosts_has_block call and its result
    walk,       \* SpecWalk: the _descendants_of call, its locals and its result
    stdin,      \* SpecStdio: the messages the browser sends, unread and read
    inbox,      \* SpecStdio: the queue between the reader thread and the main loop
    stopEvent,  \* SpecStdio: the threading.Event both threads test
    reader,     \* SpecStdio: where the reader thread stands
    main,       \* SpecStdio: where the main loop stands, and what it remembers
    stdout      \* SpecStdio: the messages the host has sent

hostsVars == <<hosts, calls>>
gateVars == <<platform, clock, gate, polled>>
loopVars == <<pc, stop, once, cfgFile, last_block, last_domains, stateFile, tick, prevTick>>
writeVars == <<fs, writer, observed, environ>>
policyVars == <<decided, prevDecided, windowed>>
callVars == <<expanded, parsed, probed, walk>>
stdioVars == <<stdin, inbox, stopEvent, reader, main, stdout>>
vars == <<hosts, calls, platform, clock, gate, polled,
          pc, stop, once, cfgFile, last_block, last_domains, stateFile, tick, prevTick,
          fs, writer, observed, environ, decided, prevDecided, windowed,
          expanded, parsed, probed, walk, stdin, inbox, stopEvent, reader, main, stdout>>

(***************************************************************************)
(* Bounds                                                                  *)
(***************************************************************************)
MaxLen == 3
MaxCalls == 2
MaxClock == 6
MaxStep == 3
MaxTicks == 2
MaxWrites == 2
MaxCycles == 2
MaxProcs == 3

(***************************************************************************)
(* xgate/hosts.py                                                          *)
(***************************************************************************)
MANAGED_START == <<"START">>
MANAGED_END == <<"END">>

LineBoundaries == {"NL", "FF"}
Whitespace == {"SP"}

RECURSIVE lstrip(_)
lstrip(line) ==
    IF line # <<>> /\ Head(line) \in Whitespace THEN lstrip(Tail(line)) ELSE line

RECURSIVE rstrip(_)
rstrip(line) ==
    IF line # <<>> /\ line[Len(line)] \in Whitespace
    THEN rstrip(SubSeq(line, 1, Len(line) - 1))
    ELSE line

strip(line) == rstrip(lstrip(line))

(* str.splitlines(): cut at every line boundary; a text that ends with a   *)
(* boundary yields no trailing empty line.                                 *)
RECURSIVE SplitFrom(_, _)
SplitFrom(text, cur) ==
    IF text = <<>> THEN (IF cur = <<>> THEN <<>> ELSE <<cur>>)
    ELSE IF Head(text) \in LineBoundaries
         THEN <<cur>> \o SplitFrom(Tail(text), <<>>)
         ELSE SplitFrom(Tail(text), Append(cur, Head(text)))

splitlines(text) == SplitFrom(text, <<>>)

(* "\n".join(lines) *)
RECURSIVE join(_)
join(lines) ==
    IF lines = <<>> THEN <<>>
    ELSE IF Len(lines) = 1 THEN lines[1]
         ELSE lines[1] \o <<"NL">> \o join(Tail(lines))

endswith_newline(text) == text # <<>> /\ text[Len(text)] = "NL"

RECURSIVE render_entries(_)
render_entries(domains) ==
    IF domains = <<>> THEN <<>>
    ELSE << <<"V4">> \o Head(domains), <<"V6">> \o Head(domains) >>
         \o render_entries(Tail(domains))

render_block_section_v4_only(domains) ==
    <<MANAGED_START>>
    \o [i \in 1..Len(domains) |-> <<"V4">> \o domains[i]]
    \o <<MANAGED_END>>

render_block_section(domains) ==
    <<MANAGED_START>> \o render_entries(domains) \o <<MANAGED_END>>

RECURSIVE StripFrom(_, _)
StripFrom(lines, in_block) ==
    IF lines = <<>> THEN <<>>
    ELSE LET line == Head(lines)
             stripped == strip(line)
         IN  IF stripped = MANAGED_START THEN StripFrom(Tail(lines), TRUE)
             ELSE IF stripped = MANAGED_END THEN StripFrom(Tail(lines), FALSE)
             ELSE IF ~in_block THEN <<line>> \o StripFrom(Tail(lines), in_block)
             ELSE StripFrom(Tail(lines), in_block)

_strip_managed(lines) == StripFrom(lines, FALSE)

with_block_always_separated(cleaned, domains, should_block) ==
    IF should_block /\ domains # <<>>
    THEN Append(cleaned, <<>>) \o render_block_section(domains)
    ELSE cleaned

(* The separator step of apply_hosts (hosts.py:83-86). *)
with_block(cleaned, domains, should_block) ==
    IF should_block /\ domains # <<>>
    THEN (IF cleaned # <<>> /\ strip(cleaned[Len(cleaned)]) # <<>>
          THEN Append(cleaned, <<>>)
          ELSE cleaned) \o render_block_section(domains)
    ELSE cleaned

new_text(original, domains, should_block) ==
    LET lines == splitlines(original)
        cleaned == _strip_managed(lines)
        newline == IF endswith_newline(original) \/ original = <<>>
                   THEN <<"NL">> ELSE <<>>
    IN  join(with_block(cleaned, domains, should_block)) \o newline

(* apply_hosts without I/O failures: the returned flag, whether the file   *)
(* is written, and the text of the file afterwards.                        *)
apply_hosts(original, domains, should_block) ==
    LET new == new_text(original, domains, should_block)
    IN  [changed |-> new # original,
         wrote   |-> new # original,
         text    |-> new]

(* marker in content, for two strings *)
Contains(content, marker) ==
    \E i \in 1..(Len(content) - Len(marker) + 1) :
        SubSeq(content, i, i + Len(marker) - 1) = marker

(* hosts_has_block: exists is path.exists() and content the text read. *)
hosts_has_block(exists, content) ==
    IF ~exists THEN FALSE
    ELSE Contains(content, MANAGED_START) /\ Contains(content, MANAGED_END)

(***************************************************************************)
(* xgate/config.py                                                         *)
(***************************************************************************)
DEFAULT_GRACE == 15
DEFAULT_CPU_THRESHOLD == 1
DEFAULT_NET_THRESHOLD == 1

(* Watch patterns are named; WatchSearch says which command lines a        *)
(* pattern finds a match in.                                               *)
DEFAULT_WATCH == "(?i)\\b(codex|claude(?:-code)?|claude_code)\\b"

(* A watch_regex that is no regular expression: config_from_dict takes any *)
(* string (config.py:64).                                                  *)
BAD_WATCH == "("

DEFAULT_PROCESS_CONFIG ==
    [watch_regex |-> DEFAULT_WATCH,
     require_tty |-> TRUE,
     active_grace_seconds |-> DEFAULT_GRACE,
     cpu_active_threshold_percent |-> DEFAULT_CPU_THRESHOLD,
     net_active_threshold_bytes |-> DEFAULT_NET_THRESHOLD,
     enable_nettop |-> TRUE,
     consider_children_active |-> TRUE]

(***************************************************************************)
(* xgate/process_gate.py                                                   *)
(***************************************************************************)
(* A terminal string is a sequence of atoms; "?" is the question mark.     *)
_has_tty_sentinels_only(tty) == tty \notin {<<"?">>, <<"?", "?">>}
_has_tty(tty) ==
    /\ tty \notin {<<"?">>, <<"?", "?">>}
    /\ \A i \in 1..Len(tty) : tty[i] # "?"

(* re.compile(config.watch_regex) returns a pattern; otherwise it raises   *)
(* re.error.                                                               *)
WatchCompiles(watch_regex) == watch_regex # BAD_WATCH

WatchSearch(watch_regex, cmd) ==
    IF watch_regex = DEFAULT_WATCH THEN cmd \in {"codex", "claude --model opus"}
    ELSE FALSE

RECURSIVE _matching_processes(_, _)
_matching_processes(processes, config) ==
    IF processes = <<>> THEN <<>>
    ELSE LET proc == Head(processes)
             rest == _matching_processes(Tail(processes), config)
         IN  IF config.require_tty /\ ~_has_tty(proc.tty) THEN rest
             ELSE IF WatchSearch(config.watch_regex, proc.cmd) THEN <<proc>> \o rest
             ELSE rest

(* dict ppid -> list of children, in scan order; a pid that is nobody's    *)
(* parent is not a key.                                                    *)
_build_children_map(processes) ==
    [ppid \in {processes[i].ppid : i \in 1..Len(processes)} |->
        SelectSeq(processes, LAMBDA proc : proc.ppid = ppid)]

children_get(children_map, pid) ==
    IF pid \in DOMAIN children_map THEN children_map[pid] ELSE <<>>

RECURSIVE DescendWalk(_, _, _, _)
DescendWalk(stack, seen, out, children_map) ==
    IF stack = <<>> THEN out
    ELSE LET proc == stack[Len(stack)]
             popped == SubSeq(stack, 1, Len(stack) - 1)
         IN  IF proc.pid \in seen
             THEN DescendWalk(popped, seen, out, children_map)
             ELSE DescendWalk(popped \o children_get(children_map, proc.pid),
                              seen \cup {proc.pid}, Append(out, proc), children_map)

_descendants_of_children(pid, children_map) == children_get(children_map, pid)
_descendants_of(pid, children_map) ==
    DescendWalk(children_get(children_map, pid), {}, <<>>, children_map)

SeqToSet(seq) == {seq[i] : i \in 1..Len(seq)}

(* cpu evidence, process_gate.py:165-170 *)
cpu_evidence_above(config, matches) ==
    /\ config.cpu_active_threshold_percent > 0
    /\ \E proc \in SeqToSet(matches) :
          proc.cpu_percent > config.cpu_active_threshold_percent
cpu_evidence(config, matches) ==
    /\ config.cpu_active_threshold_percent > 0
    /\ \E proc \in SeqToSet(matches) :
          proc.cpu_percent >= config.cpu_active_threshold_percent

(* child_cpu evidence, process_gate.py:172-193 *)
child_cpu_evidence(config, matches, children_map) ==
    /\ config.consider_children_active
    /\ config.cpu_active_threshold_percent > 0
    /\ DOMAIN children_map # {}
    /\ LET match_pids == {p.pid : p \in SeqToSet(matches)}
       IN  \E proc \in SeqToSet(matches) :
             \E child \in SeqToSet(_descendants_of(proc.pid, children_map)) :
                /\ child.pid \notin match_pids
                /\ ~WatchSearch(config.watch_regex, child.cmd)
                /\ ~(proc.tty # <<>> /\ child.tty # <<>> /\ proc.tty # child.tty)
                /\ child.cpu_percent >= config.cpu_active_threshold_percent

Max0(n) == IF n > 0 THEN n ELSE 0

(* The sampling loop of process_gate.py:204-216: it stores the current     *)
(* total of each pid it visits and stops at the first pid whose increase   *)
(* reaches the threshold.                                                  *)
RECURSIVE NetScan(_, _, _, _)
NetScan(pids, totals, prev_net_totals, threshold) ==
    IF pids = <<>> THEN [hit |-> FALSE, prev |-> prev_net_totals]
    ELSE LET pid == Head(pids)
         IN  IF pid \notin DOMAIN totals
             THEN NetScan(Tail(pids), totals, prev_net_totals, threshold)
             ELSE LET cur == totals[pid]
                      stored == [q \in (DOMAIN prev_net_totals) \cup {pid} |->
                                    IF q = pid THEN cur ELSE prev_net_totals[q]]
                  IN  IF pid \notin DOMAIN prev_net_totals
                      THEN NetScan(Tail(pids), totals, stored, threshold)
                      ELSE LET prev == prev_net_totals[pid]
                               delta == Max0((cur[1] + cur[2]) - (prev[1] + prev[2]))
                           IN  IF delta >= threshold
                               THEN [hit |-> TRUE, prev |-> stored]
                               ELSE NetScan(Tail(pids), totals, stored, threshold)

PidsOf(matches) == [i \in 1..Len(matches) |-> matches[i].pid]

(* The hysteresis step, process_gate.py:218-226. *)
grace_applies_strict(config, now, last_active_at) ==
    last_active_at # 0 /\ (now - last_active_at) < config.active_grace_seconds

grace_applies(config, now, last_active_at) ==
    last_active_at # 0 /\ (now - last_active_at) <= config.active_grace_seconds

hysteresis_extending(config, now, active_now, last_active_at) ==
    IF active_now \/ grace_applies(config, now, last_active_at)
    THEN [active |-> TRUE, last_active_at |-> now,
          grace |-> ~active_now]
    ELSE [active |-> FALSE, last_active_at |-> last_active_at, grace |-> FALSE]

hysteresis_grace_beside(config, now, active_now, last_active_at) ==
    IF active_now
    THEN [active |-> TRUE, last_active_at |-> now,
          grace |-> grace_applies(config, now, last_active_at)]
    ELSE [active |-> grace_applies(config, now, last_active_at),
          last_active_at |-> last_active_at,
          grace |-> grace_applies(config, now, last_active_at)]

hysteresis(config, now, active_now, last_active_at) ==
    IF active_now
    THEN [active |-> TRUE, last_active_at |-> now, grace |-> FALSE]
    ELSE [active |-> grace_applies(config, now, last_active_at),
          last_active_at |-> last_active_at,
          grace |-> grace_applies(config, now, last_active_at)]

(* _process_active; totals is what nettop reports when it is asked.        *)
_process_active(config, sysname, now, matches, children_map, totals, prev_net_totals, last_active_at) ==
    IF matches = <<>>
    THEN [active |-> FALSE, last_active_at |-> 0, evidence |-> <<>>,
          prev_net_totals |-> prev_net_totals, active_now |-> FALSE]
    ELSE LET cpu == cpu_evidence(config, matches)
             child == ~cpu /\ child_cpu_evidence(config, matches, children_map)
             sample == /\ ~cpu /\ ~child
                       /\ config.enable_nettop
                       /\ sysname = "Darwin"
                       /\ config.net_active_threshold_bytes > 0
             net == IF sample
                    THEN NetScan(PidsOf(matches), totals, prev_net_totals,
                                 config.net_active_threshold_bytes)
                    ELSE [hit |-> FALSE, prev |-> prev_net_totals]
             active_now == cpu \/ child \/ net.hit
             h == hysteresis(config, now, active_now, last_active_at)
             evidence == (IF cpu THEN <<"cpu">> ELSE <<>>)
                         \o (IF child THEN <<"child_cpu">> ELSE <<>>)
                         \o (IF net.hit THEN <<"net">> ELSE <<>>)
                         \o (IF h.grace THEN <<"grace">> ELSE <<>>)
         IN  [active |-> h.active, last_active_at |-> h.last_active_at,
              evidence |-> evidence, prev_net_totals |-> net.prev,
              active_now |-> active_now]

(* ProcessGate.__init__ *)
ProcessGate(config) ==
    [config |-> config, last_active_at |-> 0, prev_net_totals |-> <<>>]

Restrict_keeping(f, S) == f
Restrict(f, S) == [q \in (DOMAIN f) \cap S |-> f[q]]

(* self.last_active_at = 0.0; self.prev_net_totals = {},                   *)
(* process_gate.py:258-259                                                 *)
reset_activity_keeping(g) == g
reset_activity(g) == [g EXCEPT !.last_active_at = 0, !.prev_net_totals = <<>>]

(* return False, False, {"evidence": ["ps_error"]}, process_gate.py:253-255 *)
ps_error_result_as_running(g) ==
    [running |-> TRUE, active |-> TRUE, evidence |-> <<"ps_error">>,
     gate |-> g, matches |-> <<>>, active_now |-> FALSE]
ps_error_result_resetting(g) ==
    [running |-> FALSE, active |-> FALSE, evidence |-> <<"ps_error">>,
     gate |-> [g EXCEPT !.last_active_at = 0, !.prev_net_totals = <<>>],
     matches |-> <<>>, active_now |-> FALSE]
ps_error_result(g) ==
    [running |-> FALSE, active |-> FALSE, evidence |-> <<"ps_error">>,
     gate |-> g, matches |-> <<>>, active_now |-> FALSE]

(* poll raises instead of returning: on Darwin and Linux the pattern is    *)
(* compiled by _matching_processes (process_gate.py:81), outside the try   *)
(* of lines 251-255 and only once ps has answered.                         *)
poll_raises(g, sysname, scan) ==
    /\ sysname \in {"Darwin", "Linux"}
    /\ scan.ok
    /\ ~WatchCompiles(g.config.watch_regex)

poll_fallback_closed(g, sysname, scan, fallback, now, totals) ==
    IF sysname \notin {"Darwin", "Linux"}
    THEN [running |-> fallback, active |-> TRUE, evidence |-> <<"fallback">>,
          gate |-> g, matches |-> <<>>, active_now |-> FALSE]
    ELSE IF ~scan.ok
    THEN ps_error_result(g)
    ELSE LET matches == _matching_processes(scan.processes, g.config)
         IN  IF matches = <<>>
             THEN [running |-> FALSE, active |-> FALSE, evidence |-> <<>>,
                   gate |-> reset_activity(g),
                   matches |-> <<>>, active_now |-> FALSE]
             ELSE LET match_pids == {p.pid : p \in SeqToSet(matches)}
                      kept == Restrict(g.prev_net_totals, match_pids)
                      r == _process_active(g.config, sysname, now, matches,
                                           _build_children_map(scan.processes),
                                           totals, kept, g.last_active_at)
                  IN  [running |-> TRUE, active |-> r.active,
                       evidence |-> r.evidence,
                       gate |-> [g EXCEPT !.last_active_at = r.last_active_at,
                                          !.prev_net_totals = r.prev_net_totals],
                       matches |-> matches, active_now |-> r.active_now]

(* ProcessGate.poll.  scan is what ps returned ([ok |-> FALSE] when it     *)
(* failed), fallback what the PowerShell query found, now the value of     *)
(* time.time(), totals the nettop figures.  The result carries the gate as *)
(* poll leaves it.                                                         *)
poll(g, sysname, scan, fallback, now, totals) ==
    IF sysname \notin {"Darwin", "Linux"}
    THEN [running |-> fallback, active |-> fallback, evidence |-> <<"fallback">>,
          gate |-> g, matches |-> <<>>, active_now |-> FALSE]
    ELSE IF ~scan.ok
    THEN ps_error_result(g)
    ELSE LET matches == _matching_processes(scan.processes, g.config)
         IN  IF matches = <<>>
             THEN [running |-> FALSE, active |-> FALSE, evidence |-> <<>>,
                   gate |-> reset_activity(g),
                   matches |-> <<>>, active_now |-> FALSE]
             ELSE LET match_pids == {p.pid : p \in SeqToSet(matches)}
                      kept == Restrict(g.prev_net_totals, match_pids)
                      r == _process_active(g.config, sysname, now, matches,
                                           _build_children_map(scan.processes),
                                           totals, kept, g.last_active_at)
                  IN  [running |-> TRUE, active |-> r.active,
                       evidence |-> r.evidence,
                       gate |-> [g EXCEPT !.last_active_at = r.last_active_at,
                                          !.prev_net_totals = r.prev_net_totals],
                       matches |-> matches, active_now |-> r.active_now]

(***************************************************************************)
(* xgate/config.py: GateConfig.  block_until_unix and time_blocks are the  *)
(* two fields block_decision reads (policy.py:100-101).                    *)
(***************************************************************************)
DEFAULT_POLL_INTERVAL == 1

X_COM == <<"x.com">>
TWITTER_COM == <<"twitter.com">>

(* A blocklist entry as the user wrote it: the labels of the domain it     *)
(* names, whether, once scheme, path, port and case are cleaned away, what *)
(* is left is a well-formed domain, and how it is spelled: "plain" is the  *)
(* lower-case domain itself, "url" the domain in capitals inside           *)
(* "https://.../home", "port" the domain followed by ":443".               *)
Spelled(labels, wellformed, spelling) ==
    [labels |-> labels, wellformed |-> wellformed, spelling |-> spelling]

Entry(labels, wellformed) == Spelled(labels, wellformed, "plain")

DEFAULT_CONFIG ==
    [enabled |-> TRUE,
     reward_mode |-> TRUE,
     poll_interval_seconds |-> DEFAULT_POLL_INTERVAL,
     blocklist |-> <<Entry(X_COM, TRUE), Entry(TWITTER_COM, TRUE)>>,
     include_www |-> TRUE,
     process |-> DEFAULT_PROCESS_CONFIG,
     block_until_unix |-> 0,
     time_blocks |-> <<>>]

(***************************************************************************)
(* xgate/hosts.py: domains                                                 *)
(***************************************************************************)
(* normalize_domain, hosts.py:14-29: ValueError for an entry that is not   *)
(* well-formed, and otherwise the lower-case domain without scheme, path,  *)
(* port and outer dots, whatever the spelling.                             *)
normalize_domain(entry) ==
    [ok |-> entry.wellformed, domain |-> entry.labels]

(* normalized.startswith("www."), hosts.py:40 *)
startswith_www(normalized) == Len(normalized) > 1 /\ Head(normalized) = "www"

RECURSIVE ExpandFrom(_, _, _)
ExpandFrom(domains, include_www, ordered) ==
    IF domains = <<>> THEN ordered
    ELSE LET normalized == Head(domains)
             with_plain == IF normalized \in SeqToSet(ordered) THEN ordered
                           ELSE Append(ordered, normalized)
             www == <<"www">> \o normalized
             with_www == IF include_www /\ ~startswith_www(normalized)
                            /\ www \notin SeqToSet(with_plain)
                         THEN Append(with_plain, www)
                         ELSE with_plain
         IN  ExpandFrom(Tail(domains), include_www, with_www)

expand_domains(domains, include_www) == ExpandFrom(domains, include_www, <<>>)

(***************************************************************************)
(* xgate/policy.py                                                         *)
(***************************************************************************)
MINUTES_PER_DAY == 1440

Window(start_h, start_m, end_h, end_m) ==
    [start_h |-> start_h, start_m |-> start_m, end_h |-> end_h, end_m |-> end_m]

_minutes_of_day(hour, minute) == hour * 60 + minute

(* parse_duration_seconds, policy.py:34-53.  A duration text is a sequence *)
(* of characters: the digits "0" and "3", the units, "H" for a unit in     *)
(* capitals, "SP" for a blank, and "-" and "x" for anything else.          *)
Digits == {"0", "3"}
DigitValue(c) == IF c = "3" THEN 3 ELSE 0
UnitSeconds(unit) ==
    CASE unit = "s" -> 1 [] unit = "m" -> 60 [] unit = "h" -> 3600 [] unit = "d" -> 86400
Units == {"s", "m", "h", "d"}

(* str.lower() *)
lower(text) == [i \in 1..Len(text) |-> IF text[i] = "H" THEN "h" ELSE text[i]]

(* The first index at or after i that holds no character of the class. *)
RECURSIVE RunEnd(_, _, _)
RunEnd(text, i, class) ==
    IF i <= Len(text) /\ text[i] \in class THEN RunEnd(text, i + 1, class) ELSE i

(* int(match.group(1)) *)
RECURSIVE IntOf(_)
IntOf(digits) ==
    IF digits = <<>> THEN 0
    ELSE 10 * IntOf(SubSeq(digits, 1, Len(digits) - 1)) + DigitValue(digits[Len(digits)])

(* DURATION_TOKEN_RE = (\d+)\s*([smhd]) matched at index i, policy.py:10:   *)
(* all the digits from i on, then blanks, then a unit.                     *)
TokenAt_no_blanks(text, i) ==
    LET j == RunEnd(text, i, Digits)
    IN  [found |-> j > i /\ j <= Len(text) /\ text[j] \in Units,
         start |-> i, amount |-> IntOf(SubSeq(text, i, j - 1)),
         unit |-> IF j <= Len(text) THEN text[j] ELSE "", end |-> j + 1]
TokenAt(text, i) ==
    LET j == RunEnd(text, i, Digits)
        k == RunEnd(text, j, Whitespace)
    IN  [found |-> j > i /\ k <= Len(text) /\ text[k] \in Units,
         start |-> i, amount |-> IntOf(SubSeq(text, i, j - 1)),
         unit |-> IF k <= Len(text) THEN text[k] ELSE "", end |-> k + 1]

(* finditer: the next match at or after index i. *)
RECURSIVE NextToken(_, _)
NextToken(text, i) ==
    IF i > Len(text) THEN [found |-> FALSE, start |-> i, amount |-> 0, unit |-> "",
                           end |-> i]
    ELSE IF TokenAt(text, i).found THEN TokenAt(text, i)
    ELSE NextToken(text, i + 1)

DurationError == [raised |-> TRUE, value |-> 0]

(* The loop of lines 41-53; position is the index of the first character   *)
(* not yet consumed and matched says whether a token was consumed.         *)
RECURSIVE ParseFrom(_, _, _, _)
ParseFrom(text, position, matched, total) ==
    LET m == NextToken(text, position)
    IN  IF ~m.found
        THEN (IF ~matched \/ strip(SubSeq(text, position, Len(text))) # <<>>
              THEN DurationError
              ELSE [raised |-> FALSE, value |-> total])
        ELSE IF m.start # position
                /\ strip(SubSeq(text, position, m.start - 1)) # <<>>
        THEN DurationError
        ELSE IF m.amount <= 0 THEN DurationError
        ELSE ParseFrom(text, m.end, TRUE, total + m.amount * UnitSeconds(m.unit))

parse_duration_seconds(value) ==
    LET text == lower(strip(value))
    IN  IF text = <<>> THEN DurationError ELSE ParseFrom(text, 1, FALSE, 0)

(* time.localtime() of a clock reading, as minutes since midnight. *)
LocalMinutes(t) == (t \div 60) % MINUTES_PER_DAY

(* normalize_time_block, policy.py:22-31, on a window already split into   *)
(* its four numbers: whether it is accepted.                               *)
normalize_time_block_ok(window) ==
    /\ ~(window.start_h > 23 \/ window.end_h > 23
          \/ window.start_m > 59 \/ window.end_m > 59)
    /\ ~(window.start_h = window.end_h /\ window.start_m = window.end_m)

is_time_block_active_closed(window, now_minutes) ==
    LET start_minutes == _minutes_of_day(window.start_h, window.start_m)
        end_minutes == _minutes_of_day(window.end_h, window.end_m)
    IN  IF start_minutes < end_minutes
        THEN start_minutes <= now_minutes /\ now_minutes <= end_minutes
        ELSE now_minutes >= start_minutes \/ now_minutes <= end_minutes

is_time_block_active(window, now_minutes) ==
    LET start_minutes == _minutes_of_day(window.start_h, window.start_m)
        end_minutes == _minutes_of_day(window.end_h, window.end_m)
    IN  IF start_minutes < end_minutes
        THEN start_minutes <= now_minutes /\ now_minutes < end_minutes
        ELSE now_minutes >= start_minutes \/ now_minutes < end_minutes

_activity_blocks_plain(config, process_active) == process_active
_activity_blocks(config, process_active) ==
    IF config.reward_mode THEN ~process_active ELSE process_active

(* if not config.enabled, policy.py:88 *)
gating_off_never(config) == FALSE
gating_off(config) == ~config.enabled

(* float(config.block_until_unix) > ts, policy.py:100 *)
timer_block_through_deadline(config, ts) == config.block_until_unix >= ts
timer_block(config, ts) == config.block_until_unix > ts

(* The reasons list, policy.py:103-109 *)
decision_reasons_activity_first(timer, time_block, activity) ==
    (IF activity THEN <<"activity">> ELSE <<>>)
    \o (IF timer THEN <<"timer">> ELSE <<>>)
    \o (IF time_block THEN <<"time_block">> ELSE <<>>)
decision_reasons(timer, time_block, activity) ==
    (IF timer THEN <<"timer">> ELSE <<>>)
    \o (IF time_block THEN <<"time_block">> ELSE <<>>)
    \o (IF activity THEN <<"activity">> ELSE <<>>)

(* block_decision; ts is the time compared with the timer deadline and     *)
(* local_minutes the local time the windows are evaluated at.              *)
block_decision(config, process_active, ts, local_minutes) ==
    IF gating_off(config)
    THEN [should_block |-> FALSE, reasons |-> <<>>,
          activity_block_active |-> FALSE, time_block_active |-> FALSE,
          timer_block_active |-> FALSE]
    ELSE LET activity_block_active == _activity_blocks(config, process_active)
             timer_block_active == timer_block(config, ts)
             time_block_active ==
                 \E i \in 1..Len(config.time_blocks) :
                     is_time_block_active(config.time_blocks[i], local_minutes)
             reasons == decision_reasons(timer_block_active, time_block_active,
                                         activity_block_active)
         IN  [should_block |-> reasons # <<>>, reasons |-> reasons,
              activity_block_active |-> activity_block_active,
              time_block_active |-> time_block_active,
              timer_block_active |-> timer_block_active]

(* should_block: both clocks are read when it is called. *)
should_block(config, process_active, now) ==
    block_decision(config, process_active, now, LocalMinutes(now)).should_block

(***************************************************************************)
(* xgate/daemon.py                                                         *)
(***************************************************************************)
(* The configuration file: absent, unparseable, or holding a config. *)
ConfigAbsent == [kind |-> "absent", config |-> DEFAULT_CONFIG]
ConfigCorrupt == [kind |-> "corrupt", config |-> DEFAULT_CONFIG]
ConfigFile(config) == [kind |-> "valid", config |-> config]

_load_config_safe(file) ==
    IF file.kind = "valid" THEN [config |-> file.config, found |-> TRUE]
    ELSE [config |-> DEFAULT_CONFIG, found |-> FALSE]

(* daemon.py:104-106 *)
tick_config_as_loaded(loaded) == loaded.config

tick_config(loaded) ==
    IF ~loaded.found THEN [loaded.config EXCEPT !.enabled = FALSE]
    ELSE loaded.config

RECURSIVE CleanFrom(_)
CleanFrom(blocklist) ==
    IF blocklist = <<>> THEN <<>>
    ELSE LET n == normalize_domain(Head(blocklist))
         IN  (IF n.ok THEN <<n.domain>> ELSE <<>>) \o CleanFrom(Tail(blocklist))

_expand_blocklist_until_invalid(blocklist, include_www) ==
    LET bad == {i \in 1..Len(blocklist) : ~normalize_domain(blocklist[i]).ok}
        valid == IF bad = {} THEN blocklist
                 ELSE SubSeq(blocklist, 1, (CHOOSE i \in bad : \A j \in bad : i <= j) - 1)
    IN  expand_domains(CleanFrom(valid), include_www)
_expand_blocklist(blocklist, include_www) ==
    expand_domains(CleanFrom(blocklist), include_www)

(* Optional values: None is <<>> and a value v is <<v>>. *)
None == <<>>
Some(v) == <<v>>

(* daemon.py:130 *)
needs_reconcile_block_only(block_now, domains, lb, ld) ==
    Some(block_now) # lb

needs_reconcile(block_now, domains, lb, ld) ==
    \/ Some(block_now) # lb
    \/ domains # (IF ld = None \/ ld[1] = <<>> THEN <<>> ELSE ld[1])

(* gate.config != gate_config.process, daemon.py:108-109 *)
tick_gate_keeping(g, process_config) == g
tick_gate(g, process_config) ==
    IF g.config # process_config THEN ProcessGate(process_config) ELSE g

reconcile_block_only(text, domains, block_now, io) ==
    IF block_now
    THEN [failed |-> FALSE, changed |-> apply_hosts(text, domains, TRUE).changed,
          text |-> apply_hosts(text, domains, TRUE).text]
    ELSE [failed |-> FALSE, changed |-> FALSE, text |-> text]

(* The outcome of the apply_hosts call of a tick; io says whether reading  *)
(* or writing the hosts file fails.                                        *)
reconcile(text, domains, block_now, io) ==
    IF io = "read_error"
    THEN [failed |-> TRUE, changed |-> FALSE, text |-> text]
    ELSE LET r == apply_hosts(text, domains, block_now)
         IN  IF r.wrote /\ io = "write_error"
             THEN [failed |-> TRUE, changed |-> FALSE, text |-> text]
             ELSE [failed |-> FALSE, changed |-> r.changed, text |-> r.text]

(***************************************************************************)
(* Inputs of the hosts-file specification                                  *)
(***************************************************************************)
TextAtoms == {"x", "SP", "NL", "FF", "START", "END"}

RECURSIVE TextsUpTo(_)
TextsUpTo(n) ==
    IF n = 0 THEN {<<>>}
    ELSE LET shorter == TextsUpTo(n - 1)
         IN  shorter \cup {Append(t, a) : t \in {s \in shorter : Len(s) = n - 1},
                                          a \in TextAtoms}

(* Longer hosts files: a block after an unmanaged line, two blocks, a       *)
(* block followed by unmanaged lines, an indented marker, an unterminated  *)
(* block behind unmanaged lines.                                           *)
SampleHostsFiles ==
    {<<"x", "NL", "START", "NL", "x", "NL", "END", "NL">>,
     <<"START", "NL", "END", "NL", "x", "NL", "START", "NL", "x", "NL", "END">>,
     <<"x", "NL", "NL", "START", "NL", "END", "NL", "x", "NL", "SP", "NL">>,
     <<"x", "NL", "SP", "START", "SP", "NL", "x", "NL", "END", "NL">>,
     <<"x", "NL", "x", "START", "NL", "START", "NL", "x", "NL", "x">>}

HostsFiles == TextsUpTo(MaxLen) \cup SampleHostsFiles

(* The arguments of a call: a domain list and should_block. *)
HostsArgs ==
    {<< <<>>, TRUE >>,
     << << <<"a">> >>, FALSE >>,
     << << <<"a">> >>, TRUE >>,
     << << <<"b">>, <<"www", "a">> >>, TRUE >>}

(***************************************************************************)
(* SpecHosts: apply_hosts called repeatedly on one file                    *)
(***************************************************************************)
NoPoll ==
    [n |-> 0, now |-> 0, scan_ok |-> FALSE, processes |-> <<>>,
     matches |-> <<>>, before |-> 0,
     samples_before |-> <<>>, totals |-> <<>>, running |-> FALSE, active |-> FALSE,
     active_now |-> FALSE, evidence |-> <<>>]

GateIdle ==
    /\ platform = "Linux"
    /\ clock = 1
    /\ gate = ProcessGate(DEFAULT_PROCESS_CONFIG)
    /\ polled = NoPoll

NoTick ==
    [n |-> 0, found |-> FALSE, enabled |-> FALSE, reward_mode |-> FALSE,
     activity_block |-> FALSE, block_now |-> FALSE,
     domains |-> <<>>, applied |-> FALSE, apply_failed |-> FALSE,
     changed |-> FALSE, state_written |-> FALSE, ops |-> <<>>,
     interrupted |-> FALSE, rebuilt |-> FALSE, carried |-> 0]

LoopIdle ==
    /\ pc = "exited"
    /\ stop = FALSE
    /\ once = FALSE
    /\ cfgFile = ConfigAbsent
    /\ last_block = None
    /\ last_domains = None
    /\ stateFile = None
    /\ tick = NoTick
    /\ prevTick = NoTick

(* Paths are a stem and a suffix, which is what Path.with_suffix replaces. *)
Path(stem, suffix) == [stem |-> stem, suffix |-> suffix]
with_suffix(path, suffix) == [path EXCEPT !.suffix = suffix]

(* xgate/paths.py: the path from the environment when it is set there,    *)
(* and otherwise /etc/hosts, or state.json in the platform's directory.    *)
NoOverrides == [XGATE_HOSTS_PATH |-> None, XGATE_STATE |-> None]

hosts_path(env) ==
    IF env.XGATE_HOSTS_PATH # None THEN env.XGATE_HOSTS_PATH[1]
    ELSE Path("hosts", "")

state_path(env) ==
    IF env.XGATE_STATE # None THEN env.XGATE_STATE[1]
    ELSE Path("state", ".json")

Environs ==
    {NoOverrides,
     [XGATE_HOSTS_PATH |-> Some(Path("hosts", ".txt")),
      XGATE_STATE |-> Some(Path("snapshot", ".tmp"))]}

(* tmp_path = path.with_suffix(".xgate.tmp"), hosts.py:94 *)
hosts_tmp_path(path) == with_suffix(path, ".xgate.tmp")

(* tmp = path.with_suffix(".tmp"), daemon.py:44 *)
state_tmp_path(path) == with_suffix(path, ".tmp")

Paths ==
    UNION {{hosts_path(env), hosts_tmp_path(hosts_path(env)),
            state_path(env), state_tmp_path(state_path(env))} : env \in Environs}

NoWrite ==
    [phase |-> "idle", fn |-> "none", path |-> Path("", ""), tmp |-> Path("", ""),
     data |-> <<>>, old |-> None, n |-> 0]

NoObservation ==
    [seen |-> FALSE, path |-> Path("", ""), content |-> None, old |-> None,
     new |-> None, phase |-> "idle", partial |-> FALSE]

WriteIdle ==
    /\ fs = [p \in Paths |-> None]
    /\ writer = NoWrite
    /\ observed = NoObservation
    /\ environ = NoOverrides

NoDecision ==
    [n |-> 0, config |-> DEFAULT_CONFIG, process_active |-> FALSE,
     now_unix |-> None, ts |-> 0, wall |-> 0,
     decision |-> block_decision([DEFAULT_CONFIG EXCEPT !.enabled = FALSE], FALSE, 0, 0)]

NoWindowCall ==
    [n |-> 0, window |-> Window(0, 0, 0, 0), now_minutes |-> 0, raised |-> FALSE,
     active |-> FALSE]

PolicyIdle ==
    /\ decided = NoDecision
    /\ prevDecided = NoDecision
    /\ windowed = NoWindowCall

NoExpansion ==
    [n |-> 0, blocklist |-> <<>>, include_www |-> FALSE, domains |-> <<>>]

NoParse == [n |-> 0, text |-> <<>>, raised |-> FALSE, value |-> 0]

NoProbe == [n |-> 0, exists |-> FALSE, result |-> FALSE]

NoWalk ==
    [pc |-> "idle", pid |-> "", processes |-> <<>>, children_map |-> <<>>,
     stack |-> <<>>, seen |-> {}, out |-> <<>>]

CallIdle ==
    /\ expanded = NoExpansion
    /\ parsed = NoParse
    /\ probed = NoProbe
    /\ walk = NoWalk

StdioIdle ==
    /\ stdin = [pending |-> <<>>, read |-> <<>>]
    /\ inbox = <<>>
    /\ stopEvent = FALSE
    /\ reader = "returned"
    /\ main = [pc |-> "returned", last_block_set |-> FALSE, beats |-> 0,
               broken_pipe |-> FALSE]
    /\ stdout = <<>>

HostsInit ==
    /\ hosts \in HostsFiles
    /\ calls = <<>>
    /\ GateIdle
    /\ LoopIdle
    /\ WriteIdle
    /\ PolicyIdle
    /\ CallIdle
    /\ StdioIdle

ApplyHostsCall(domains, block) ==
    /\ Len(calls) < MaxCalls
    /\ LET r == apply_hosts(hosts, domains, block)
       IN  /\ hosts' = r.text
           /\ calls' = Append(calls, [before |-> hosts, domains |-> domains,
                                      should_block |-> block,
                                      changed |-> r.changed, wrote |-> r.wrote,
                                      after |-> r.text])
    /\ UNCHANGED <<gateVars, loopVars, writeVars, policyVars, callVars, stdioVars>>

HostsNext == \E a \in HostsArgs : ApplyHostsCall(a[1], a[2])

SpecHosts == HostsInit /\ [][HostsNext]_vars

(***************************************************************************)
(* SpecCycle: apply_hosts called on one file, blocking and unblocking in   *)
(* turn                                                                    *)
(***************************************************************************)
(* A call blocks when it is asked to and has domains to write,             *)
(* hosts.py:83.                                                            *)
Blocking(domains, block) == block /\ domains # <<>>

(* The files the cycles start from: empty, with and without a final line   *)
(* ending, ending with an empty or a blank line, with a form feed as line  *)
(* boundary, with an unclosed block, with a lone end marker, with marker   *)
(* text inside a longer line, with the block of an earlier run, and the    *)
(* longer files of SpecHosts.                                              *)
CycleHostsFiles ==
    SampleHostsFiles
    \cup {<<"x", "NL", "NL", "START", "NL", "V4", "x.com", "NL", "END", "NL">>,
          <<>>, <<"x">>, <<"NL">>, <<"SP">>, <<"x", "NL", "x">>,
          <<"SP", "NL">>, <<"x", "NL", "NL">>, <<"x", "NL", "SP", "NL">>,
          <<"x", "NL", "SP">>, <<"x", "FF">>, <<"x", "FF", "x", "NL">>,
          <<"START", "NL">>, <<"x", "NL", "START", "NL", "x", "NL">>,
          <<"x", "NL", "START">>, <<"END", "NL", "x">>,
          <<"x", "START", "NL">>, <<"x", "NL", "START", "NL", "END">>}

CycleInit ==
    /\ hosts \in CycleHostsFiles
    /\ calls = <<>>
    /\ GateIdle
    /\ LoopIdle
    /\ WriteIdle
    /\ PolicyIdle
    /\ CallIdle
    /\ StdioIdle

CycleCall(domains, block) ==
    /\ Len(calls) < 2 * MaxCycles
    /\ calls # <<>> =>
          LET last == calls[Len(calls)]
          IN  Blocking(last.domains, last.should_block) # Blocking(domains, block)
    /\ LET r == apply_hosts(hosts, domains, block)
       IN  /\ hosts' = r.text
           /\ calls' = Append(calls, [before |-> hosts, domains |-> domains,
                                      should_block |-> block,
                                      changed |-> r.changed, wrote |-> r.wrote,
                                      after |-> r.text])
    /\ UNCHANGED <<gateVars, loopVars, writeVars, policyVars, callVars, stdioVars>>

CycleNext == \E a \in HostsArgs : CycleCall(a[1], a[2])

SpecCycle == CycleInit /\ [][CycleNext]_vars

(***************************************************************************)
(* SpecGate: one ProcessGate polled tick after tick                        *)
(***************************************************************************)
Platforms == {"Darwin", "Linux", "Windows"}

TTY1 == <<"ttys001">>
TTY2 == <<"pts/0">>
NOTTY == <<"?", "?">>

Proc(pid, ppid, tty, cpu, cmd) ==
    [pid |-> pid, ppid |-> ppid, tty |-> tty, cpu_percent |-> cpu, cmd |-> cmd]

ScanOk(processes) == [ok |-> TRUE, processes |-> processes]
ScanFailed == [ok |-> FALSE, processes |-> <<>>]

GateScans ==
    {ScanFailed,
     ScanOk(<<>>),
     ScanOk(<<Proc("7", "1", TTY1, 5, "/bin/zsh")>>),
     ScanOk(<<Proc("100", "1", TTY1, 0, "codex")>>),
     ScanOk(<<Proc("100", "1", TTY1, 5, "codex")>>),
     ScanOk(<<Proc("100", "1", NOTTY, 5, "codex")>>),
     ScanOk(<<Proc("100", "1", TTY1, 0, "codex"),
              Proc("101", "100", TTY1, 5, "pytest -q")>>),
     ScanOk(<<Proc("100", "1", TTY1, 5, "codex"),
              Proc("101", "100", TTY1, 5, "pytest -q")>>),
     ScanOk(<<Proc("100", "1", TTY1, 0, "codex"),
              Proc("101", "1", TTY2, 0, "claude --model opus")>>)}

GateProcessConfigs ==
    {DEFAULT_PROCESS_CONFIG,
     [DEFAULT_PROCESS_CONFIG EXCEPT !.active_grace_seconds = 2],
     [DEFAULT_PROCESS_CONFIG EXCEPT !.active_grace_seconds = 2,
                                    !.enable_nettop = FALSE,
                                    !.consider_children_active = FALSE],
     [DEFAULT_PROCESS_CONFIG EXCEPT !.active_grace_seconds = 2,
                                    !.require_tty = FALSE,
                                    !.cpu_active_threshold_percent = 0],
     [DEFAULT_PROCESS_CONFIG EXCEPT !.active_grace_seconds = 0,
                                    !.net_active_threshold_bytes = 4]}

SamplePids == {"100", "101"}
SampleValues == {<<0, 0>>, <<2, 1>>}

(* What nettop can report: nothing (the command fails, or knows none of    *)
(* the pids), figures for the first pid, or the same figures for all.      *)
NettopTotals ==
    {<<>>}
    \cup {[p \in {"100"} |-> v] : v \in SampleValues}
    \cup {[p \in SamplePids |-> v] : v \in SampleValues}

GateInit ==
    /\ platform \in Platforms
    /\ clock = 1
    /\ gate \in {ProcessGate(c) : c \in GateProcessConfigs}
    /\ polled = NoPoll
    /\ hosts = <<>>
    /\ calls = <<>>
    /\ LoopIdle
    /\ WriteIdle
    /\ PolicyIdle
    /\ CallIdle
    /\ StdioIdle

PollRecord(g, now, scan, r) ==
    [n |-> 1, now |-> now, scan_ok |-> scan.ok, processes |-> scan.processes,
     matches |-> r.matches,
     before |-> g.last_active_at, samples_before |-> g.prev_net_totals,
     totals |-> <<>>,
     running |-> r.running, active |-> r.active, active_now |-> r.active_now,
     evidence |-> r.evidence]

GatePoll(step, scan, fallback, totals) ==
    /\ clock + step <= MaxClock
    /\ clock' = clock + step
    /\ LET r == poll(gate, platform, scan, fallback, clock', totals)
       IN  /\ gate' = r.gate
           /\ polled' = PollRecord(gate, clock', scan, r)
    /\ UNCHANGED <<platform, hostsVars, loopVars, writeVars, policyVars, callVars, stdioVars>>

(* The inputs poll consults on this platform: the PowerShell query only    *)
(* off Darwin and Linux, ps only on them, nettop only on Darwin.           *)
ScansOn(sysname) ==
    IF sysname \in {"Darwin", "Linux"} THEN GateScans ELSE {ScanFailed}
FallbacksOn(sysname) ==
    IF sysname \in {"Darwin", "Linux"} THEN {FALSE} ELSE BOOLEAN
TotalsOn(sysname) ==
    IF sysname = "Darwin" THEN NettopTotals ELSE {<<>>}

GateNext ==
    \E step \in 1..MaxStep, scan \in ScansOn(platform),
       fallback \in FallbacksOn(platform), totals \in TotalsOn(platform) :
        GatePoll(step, scan, fallback, totals)

SpecGate == GateInit /\ [][GateNext]_vars

(***************************************************************************)
(* SpecNet: one ProcessGate on macOS polled tick after tick, with the      *)
(* figures nettop reports noted                                            *)
(***************************************************************************)
MaxPolls == 3

(* One or two focus processes below the CPU threshold, the first of them   *)
(* above it, none, or a failing ps.                                        *)
NetScans ==
    {ScanFailed,
     ScanOk(<<>>),
     ScanOk(<<Proc("100", "1", TTY1, 0, "codex")>>),
     ScanOk(<<Proc("100", "1", TTY1, 0, "codex"),
              Proc("101", "1", TTY2, 0, "claude --model opus")>>),
     ScanOk(<<Proc("100", "1", TTY1, 5, "codex"),
              Proc("101", "1", TTY2, 0, "claude --model opus")>>)}

(* Cumulative (bytes in, bytes out) of a process. *)
NetValues == {<<0, 0>>, <<2, 1>>, <<3, 3>>}

(* nettop reports nothing, figures for the first pid, or for both. *)
NetTotals ==
    {<<>>}
    \cup [{"100"} -> NetValues]
    \cup [{"100", "101"} -> NetValues]

NetProcessConfigs ==
    {[DEFAULT_PROCESS_CONFIG EXCEPT !.active_grace_seconds = 1,
                                    !.net_active_threshold_bytes = t] : t \in {0, 1, 4}}
    \cup {[DEFAULT_PROCESS_CONFIG EXCEPT !.active_grace_seconds = 1,
                                         !.enable_nettop = FALSE]}

NetInit ==
    /\ platform = "Darwin"
    /\ clock = 1
    /\ gate \in {ProcessGate(c) : c \in NetProcessConfigs}
    /\ polled = NoPoll
    /\ hosts = <<>>
    /\ calls = <<>>
    /\ LoopIdle
    /\ WriteIdle
    /\ PolicyIdle
    /\ CallIdle
    /\ StdioIdle

(* ProcessGate.poll two seconds after the previous one. *)
NetPoll(scan, totals) ==
    /\ polled.n < MaxPolls
    /\ clock' = clock + 2
    /\ LET r == poll(gate, platform, scan, FALSE, clock', totals)
       IN  /\ gate' = r.gate
           /\ polled' = [PollRecord(gate, clock', scan, r) EXCEPT
                            !.n = polled.n + 1, !.totals = totals]
    /\ UNCHANGED <<platform, hostsVars, loopVars, writeVars, policyVars, callVars,
                   stdioVars>>

NetNext == \E scan \in NetScans, totals \in NetTotals : NetPoll(scan, totals)

SpecNet == NetInit /\ [][NetNext]_vars

(***************************************************************************)
(* SpecScan: one poll of a fresh ProcessGate over a process table          *)
(***************************************************************************)
(* Terminal columns of ps: two terminals, the "?" of Linux and the "??" of *)
(* macOS for a process without one, and a name with a "?" in it.           *)
QTTY == <<"?">>
PARTTTY == <<"pts/", "?">>

(* Process tables of one to three rows: a first process, a second that is  *)
(* its child or a child of init, a third that is a child of the second or  *)
(* of the first.                                                           *)
ScanFirst ==
    {Proc("100", "1", tty, cpu, cmd) :
        tty \in {TTY1, QTTY, NOTTY, PARTTTY}, cpu \in {0, 1, 5},
        cmd \in {"codex", "/bin/zsh"}}
ScanSecond ==
    {Proc("101", ppid, tty, cpu, cmd) :
        ppid \in {"100", "1"}, tty \in {TTY1, TTY2, NOTTY}, cpu \in {0, 1},
        cmd \in {"pytest -q", "claude --model opus"}}
ScanThird ==
    {Proc("102", ppid, TTY1, cpu, "pytest -q") : ppid \in {"101", "100"}, cpu \in {0, 5}}

ScanTables ==
    {<<a>> : a \in ScanFirst}
    \cup {<<a, b>> : a \in ScanFirst, b \in ScanSecond}
    \cup {<<a, b, c>> : a \in ScanFirst, b \in ScanSecond, c \in ScanThird}

ScanProcessConfigs ==
    {[DEFAULT_PROCESS_CONFIG EXCEPT !.require_tty = t,
                                    !.cpu_active_threshold_percent = c,
                                    !.consider_children_active = k] :
        t \in BOOLEAN, c \in {0, 1}, k \in BOOLEAN}

(* The process table ps will print is drawn at the start. *)
ScanInit ==
    /\ platform = "Linux"
    /\ clock = 1
    /\ gate \in {ProcessGate(c) : c \in ScanProcessConfigs}
    /\ polled \in {[NoPoll EXCEPT !.processes = table] : table \in ScanTables}
    /\ hosts = <<>>
    /\ calls = <<>>
    /\ LoopIdle
    /\ WriteIdle
    /\ PolicyIdle
    /\ CallIdle
    /\ StdioIdle

ScanNext ==
    /\ polled.n = 0
    /\ GatePoll(1, ScanOk(polled.processes), FALSE, <<>>)

SpecScan == ScanInit /\ [][ScanNext]_vars

(***************************************************************************)
(* SpecWalk: one call of _descendants_of, a step per turn of its loop      *)
(***************************************************************************)
(* Process snapshots of up to MaxProcs rows with distinct pids, in which   *)
(* every row names as its parent init, itself or any row of the snapshot:  *)
(* chains, forests, self-loops and cycles of every length.                 *)
PidNames == <<"100", "101", "102", "103", "104">>

WalkPids(n) == {PidNames[i] : i \in 1..n}

WalkTablesOf(n) ==
    {[i \in 1..n |-> Proc(PidNames[i], parent[i], TTY1, 0, "sh")] :
        parent \in [1..n -> {"1"} \cup WalkPids(n)]}

WalkTables == UNION {WalkTablesOf(n) : n \in 0..MaxProcs}

(* The call is made, with the children map built from the snapshot         *)
(* (process_gate.py:91-95, 98).                                            *)
WalkInit ==
    /\ walk \in {[NoWalk EXCEPT !.pc = "called", !.pid = pid, !.processes = table,
                                !.children_map = _build_children_map(table)] :
                    pid \in {"1"} \cup WalkPids(MaxProcs), table \in WalkTables}
    /\ expanded = NoExpansion
    /\ parsed = NoParse
    /\ probed = NoProbe
    /\ hosts = <<>>
    /\ calls = <<>>
    /\ GateIdle
    /\ LoopIdle
    /\ WriteIdle
    /\ PolicyIdle
    /\ StdioIdle

WalkRest ==
    UNCHANGED <<expanded, parsed, probed, hostsVars, gateVars, loopVars, writeVars,
                policyVars, stdioVars>>

(* stack = list(children_map.get(pid, [])); seen = set(); out = [],        *)
(* process_gate.py:99-101                                                  *)
WalkEnter ==
    /\ walk.pc = "called"
    /\ walk' = [walk EXCEPT !.pc = "loop",
                            !.stack = children_get(walk.children_map, walk.pid),
                            !.seen = {},
                            !.out = <<>>]
    /\ WalkRest

(* proc = stack.pop(); if proc.pid in seen: continue,                      *)
(* process_gate.py:102-105                                                 *)
WalkSkip_appending ==
    /\ walk.pc = "loop"
    /\ walk.stack # <<>>
    /\ walk.stack[Len(walk.stack)].pid \in walk.seen
    /\ walk' = [walk EXCEPT !.stack = SubSeq(walk.stack, 1, Len(walk.stack) - 1),
                            !.out = Append(walk.out, walk.stack[Len(walk.stack)])]
    /\ WalkRest

WalkSkip ==
    /\ walk.pc = "loop"
    /\ walk.stack # <<>>
    /\ walk.stack[Len(walk.stack)].pid \in walk.seen
    /\ walk' = [walk EXCEPT !.stack = SubSeq(walk.stack, 1, Len(walk.stack) - 1)]
    /\ WalkRest

(* proc = stack.pop(); seen.add(proc.pid); out.append(proc);               *)
(* stack.extend(children_map.get(proc.pid, [])), process_gate.py:102-108   *)
WalkVisit ==
    /\ walk.pc = "loop"
    /\ walk.stack # <<>>
    /\ LET proc == walk.stack[Len(walk.stack)]
           popped == SubSeq(walk.stack, 1, Len(walk.stack) - 1)
       IN  /\ proc.pid \notin walk.seen
           /\ walk' = [walk EXCEPT
                          !.stack = popped \o children_get(walk.children_map, proc.pid),
                          !.seen = walk.seen \cup {proc.pid},
                          !.out = Append(walk.out, proc)]
    /\ WalkRest

(* while stack: ... return out, process_gate.py:102, 109 *)
WalkReturn ==
    /\ walk.pc = "loop"
    /\ walk.stack = <<>>
    /\ walk' = [walk EXCEPT !.pc = "returned"]
    /\ WalkRest

WalkNext ==
    \/ WalkEnter
    \/ WalkSkip
    \/ WalkVisit
    \/ WalkReturn

(* The call runs: a step that can be taken is taken. *)
SpecWalk == WalkInit /\ [][WalkNext]_vars /\ WF_vars(WalkNext)

(***************************************************************************)
(* Spec: run_loop                                                          *)
(***************************************************************************)
LoopStart == 9 * 3600 - 2

K_reward == DEFAULT_CONFIG
K_normal == [DEFAULT_CONFIG EXCEPT !.reward_mode = FALSE]
K_short ==
    [K_normal EXCEPT !.blocklist = <<Entry(X_COM, TRUE), Entry(<<"x com">>, FALSE)>>,
                     !.include_www = FALSE]

LoopConfigFiles ==
    {ConfigAbsent, ConfigCorrupt}
    \cup {ConfigFile(c) : c \in {K_reward, K_normal, K_short}}

LoopScans ==
    {ScanFailed,
     ScanOk(<<Proc("100", "1", TTY1, 0, "codex")>>),
     ScanOk(<<Proc("100", "1", TTY1, 5, "codex")>>)}

(* The loop is run on a platform with ps and without nettop figures for    *)
(* the focus process; the other platforms differ only inside poll.         *)
LoopTotals == {<<>>}
LoopPlatforms == {"Linux"}

LoopHostsFiles ==
    {<<"x", "NL">>,
     <<"x", "NL", "NL", "START", "NL", "V4", "x.com", "NL", "V6", "x.com", "NL",
       "END", "NL">>}

(* What goes wrong in a tick, at most one thing: nothing, the read or the  *)
(* write of the hosts file, the write of the state file.                   *)
Faults == {"none", "read_error", "write_error", "state_error"}

LoopInit ==
    /\ pc = "boot"
    /\ stop = FALSE
    /\ once \in BOOLEAN
    /\ cfgFile \in LoopConfigFiles
    /\ last_block = None
    /\ last_domains = None
    /\ stateFile = None
    /\ tick = NoTick
    /\ prevTick = NoTick
    /\ platform \in LoopPlatforms
    /\ clock = LoopStart
    /\ gate = ProcessGate(DEFAULT_PROCESS_CONFIG)
    /\ polled = NoPoll
    /\ hosts \in LoopHostsFiles
    /\ calls = <<>>
    /\ WriteIdle
    /\ PolicyIdle
    /\ CallIdle
    /\ StdioIdle

(* daemon.py:83-101 *)
Boot ==
    /\ pc = "boot"
    /\ pc' = "loop"
    /\ gate' = ProcessGate(tick_config(_load_config_safe(cfgFile)).process)
    /\ last_block' = None
    /\ last_domains' = None
    /\ stop' = FALSE
    /\ UNCHANGED <<once, cfgFile, stateFile, tick, prevTick, platform, clock, polled,
                   hostsVars, writeVars, policyVars, callVars, stdioVars>>

(* The two version markers of the package (xgate/__init__.py), as opaque   *)
(* values.                                                                 *)
__version__ == "__version__"
COMPAT_VERSION == "COMPAT_VERSION"

(* The payload of _write_state, daemon.py:115-128 *)
StatePayload(now, block_now, r, config) ==
    [timestamp_unix |-> now, block |-> block_now,
     process_running |-> r.running, process_active |-> r.active,
     evidence |-> r.evidence, enabled |-> config.enabled,
     reward_mode |-> config.reward_mode,
     poll_interval_seconds |-> config.poll_interval_seconds,
     daemon_version |-> __version__, compat_version |-> COMPAT_VERSION]

(* while not stop, daemon.py:103 *)
loop_continues_always(stop_flag) == TRUE
loop_continues(stop_flag) == ~stop_flag

(* if once: break, daemon.py:156-157, and otherwise round the loop again *)
after_tick_looping(single_shot) == "loop"
after_tick(single_shot) == IF single_shot THEN "exited" ELSE "loop"

(* The calls of a tick that write a file, in the order the loop body makes *)
(* them: _write_state at daemon.py:115, apply_hosts at daemon.py:140 when  *)
(* the comparison of line 130 asks for it.                                 *)
tick_ops_reconcile_first(due) ==
    (IF due THEN <<"apply_hosts">> ELSE <<>>) \o <<"_write_state">>
tick_ops(due) ==
    <<"_write_state">> \o (IF due THEN <<"apply_hosts">> ELSE <<>>)

(* One iteration of the while loop, daemon.py:103-158, the sleep included. *)
(* signalled: SIGTERM or SIGINT arrives while the iteration runs; the      *)
(* handler sets the flag and the interrupted call resumes.                 *)
Tick(scan, fallback, totals, fault, signalled) ==
    /\ pc = "loop"
    /\ loop_continues(stop)
    /\ tick.n < MaxTicks
    /\ LET loaded == _load_config_safe(cfgFile)
           gate_config == tick_config(loaded)
           g == tick_gate(gate, gate_config.process)
           r == poll(g, platform, scan, fallback, clock, totals)
           block_now == should_block(gate_config, r.active, clock)
           decision == block_decision(gate_config, r.active, clock, LocalMinutes(clock))
           domains == _expand_blocklist(gate_config.blocklist, gate_config.include_www)
           due == needs_reconcile(block_now, domains, last_block, last_domains)
           rec == reconcile(hosts, domains, block_now, fault)
           state_ok == fault # "state_error"
       IN  /\ ~poll_raises(g, platform, scan)
           /\ gate' = r.gate
           /\ polled' = PollRecord(g, clock, scan, r)
           /\ stateFile' = IF state_ok
                           THEN Some(StatePayload(clock, block_now, r, gate_config))
                           ELSE stateFile
           /\ hosts' = IF due THEN rec.text ELSE hosts
           /\ last_block' = IF due THEN Some(block_now) ELSE last_block
           /\ last_domains' = IF due THEN Some(domains) ELSE last_domains
           /\ tick' = [n |-> tick.n + 1, found |-> loaded.found,
                       enabled |-> gate_config.enabled,
                       reward_mode |-> gate_config.reward_mode,
                       activity_block |-> decision.activity_block_active,
                       block_now |-> block_now,
                       domains |-> domains, applied |-> due,
                       apply_failed |-> due /\ rec.failed,
                       changed |-> due /\ rec.changed,
                       state_written |-> state_ok, ops |-> tick_ops(due),
                       interrupted |-> signalled,
                       rebuilt |-> g # gate, carried |-> gate.last_active_at]
           /\ prevTick' = tick
    /\ stop' = signalled
    /\ pc' = after_tick(once)
    /\ clock' = IF once THEN clock
                ELSE clock + tick_config(_load_config_safe(cfgFile)).poll_interval_seconds
    /\ UNCHANGED <<once, cfgFile, platform, calls, writeVars, policyVars, callVars, stdioVars>>

(* An iteration in which gate.poll() raises, daemon.py:104-111: the        *)
(* exception passes through run_loop, which has no handler around the      *)
(* call, and ends the process before anything is written.                  *)
TickRaises(scan) ==
    /\ pc = "loop"
    /\ loop_continues(stop)
    /\ tick.n < MaxTicks
    /\ LET gate_config == tick_config(_load_config_safe(cfgFile))
           g == tick_gate(gate, gate_config.process)
       IN  /\ poll_raises(g, platform, scan)
           /\ gate' = g
    /\ pc' = "raised"
    /\ UNCHANGED <<stop, once, cfgFile, last_block, last_domains, stateFile, tick,
                   prevTick, platform, clock, polled, hostsVars, writeVars, policyVars, callVars, stdioVars>>

(* _handle_stop, daemon.py:96-98 *)
Signal ==
    /\ pc = "loop"
    /\ ~stop
    /\ stop' = TRUE
    /\ UNCHANGED <<pc, once, cfgFile, last_block, last_domains, stateFile, tick,
                   prevTick, gateVars, hostsVars, writeVars, policyVars, callVars, stdioVars>>

Exit_unblocking ==
    /\ pc = "loop"
    /\ ~loop_continues(stop)
    /\ pc' = "exited"
    /\ hosts' = new_text(hosts, <<>>, FALSE)
    /\ UNCHANGED <<stop, once, cfgFile, last_block, last_domains, stateFile, tick,
                   prevTick, gateVars, calls, writeVars, policyVars, callVars, stdioVars>>

(* while not stop ... return 0, daemon.py:103 and 160 *)
Exit ==
    /\ pc = "loop"
    /\ ~loop_continues(stop)
    /\ pc' = "exited"
    /\ UNCHANGED <<stop, once, cfgFile, last_block, last_domains, stateFile, tick,
                   prevTick, gateVars, hostsVars, writeVars, policyVars, callVars, stdioVars>>

(* The user, through the CLI or an editor, replaces the configuration. *)
EditConfig(file) ==
    /\ pc \in {"boot", "loop"}
    /\ tick.n < MaxTicks
    /\ file # cfgFile
    /\ cfgFile' = file
    /\ UNCHANGED <<pc, stop, once, last_block, last_domains, stateFile, tick,
                   prevTick, gateVars, hostsVars, writeVars, policyVars, callVars, stdioVars>>

Next ==
    \/ Boot
    \/ \E scan \in ScansOn(platform) \cap LoopScans,
          fallback \in FallbacksOn(platform),
          totals \in TotalsOn(platform) \cap LoopTotals,
          fault \in Faults,
          signalled \in BOOLEAN :
            Tick(scan, fallback, totals, fault, signalled)
    \/ Signal
    \/ Exit
    \/ \E file \in LoopConfigFiles : EditConfig(file)

Spec == LoopInit /\ [][Next]_vars

(* return 0, daemon.py:160: the only way out of run_loop. *)
run_loop_result == IF pc = "exited" THEN Some(0) ELSE None

(* The loop under a scheduler that lets the process run: once the flag is  *)
(* set, the test of the while loop is eventually made.                     *)
FairSpec == Spec /\ WF_vars(Exit)

(***************************************************************************)
(* SpecSteady: run_loop while every read and write of the hosts file       *)
(* succeeds and nobody else writes the file                                *)
(***************************************************************************)
(* The hosts file the daemon finds: without a block, with the block of an  *)
(* earlier run, with a block that was never closed, with an end marker     *)
(* alone, and with the marker texts inside a longer line.                  *)
SteadyHostsFiles ==
    LoopHostsFiles
    \cup {<<"x", "NL", "START", "NL", "V4", "x.com", "NL">>,
          <<"END", "NL", "x", "NL">>,
          <<"x", "START", "END", "NL">>}

SteadyConfigFiles ==
    {ConfigAbsent} \cup {ConfigFile(c) : c \in {K_reward, K_normal, K_short}}

(* What else goes wrong in a tick: nothing, or the write of the state file. *)
SteadyFaults == {"none", "state_error"}

SteadyInit ==
    /\ pc = "boot"
    /\ stop = FALSE
    /\ once \in BOOLEAN
    /\ cfgFile \in SteadyConfigFiles
    /\ last_block = None
    /\ last_domains = None
    /\ stateFile = None
    /\ tick = NoTick
    /\ prevTick = NoTick
    /\ platform \in LoopPlatforms
    /\ clock = LoopStart
    /\ gate = ProcessGate(DEFAULT_PROCESS_CONFIG)
    /\ polled = NoPoll
    /\ hosts \in SteadyHostsFiles
    /\ calls = <<>>
    /\ WriteIdle
    /\ PolicyIdle
    /\ CallIdle
    /\ StdioIdle

SteadyNext ==
    \/ Boot
    \/ \E scan \in ScansOn(platform) \cap LoopScans,
          fallback \in FallbacksOn(platform),
          totals \in TotalsOn(platform) \cap LoopTotals,
          fault \in SteadyFaults,
          signalled \in BOOLEAN :
            Tick(scan, fallback, totals, fault, signalled)
    \/ Signal
    \/ Exit
    \/ \E file \in SteadyConfigFiles : EditConfig(file)

SpecSteady == SteadyInit /\ [][SteadyNext]_vars

(***************************************************************************)
(* SpecSave: run_loop while the CLI saves the configuration                *)
(***************************************************************************)
(* save_config, xgate/config.py:136-139, is one path.write_text call: the  *)
(* file is opened for writing, which empties it, then the payload is       *)
(* written and the file closed. Between the two steps the file holds the   *)
(* empty text or a prefix of the payload, neither of which json.loads      *)
(* accepts. The configurations the CLI saves are valid ones.               *)
SaveConfigs == {K_reward, K_normal}

SaveConfigFiles == {ConfigAbsent} \cup {ConfigFile(c) : c \in SaveConfigs}

SaveInit ==
    /\ pc = "boot"
    /\ stop = FALSE
    /\ once \in BOOLEAN
    /\ cfgFile \in SaveConfigFiles
    /\ last_block = None
    /\ last_domains = None
    /\ stateFile = None
    /\ tick = NoTick
    /\ prevTick = NoTick
    /\ platform \in LoopPlatforms
    /\ clock = LoopStart
    /\ gate = ProcessGate(DEFAULT_PROCESS_CONFIG)
    /\ polled = NoPoll
    /\ hosts \in LoopHostsFiles
    /\ calls = <<>>
    /\ WriteIdle
    /\ PolicyIdle
    /\ CallIdle
    /\ StdioIdle

(* open(path, "w") inside write_text: the file exists and is empty. *)
SaveOpen(config) ==
    /\ pc \in {"boot", "loop"}
    /\ writer.phase = "idle"
    /\ writer.n < MaxWrites
    /\ ConfigFile(config) # cfgFile
    /\ writer' = [NoWrite EXCEPT !.phase = "opened", !.fn = "save_config",
                                 !.data = <<config>>, !.old = Some(cfgFile),
                                 !.n = writer.n + 1]
    /\ cfgFile' = ConfigCorrupt
    /\ UNCHANGED <<pc, stop, once, last_block, last_domains, stateFile, tick,
                   prevTick, gateVars, hostsVars, fs, observed, environ,
                   policyVars, callVars, stdioVars>>

(* f.write(payload) and the close: the file holds the whole payload. *)
SaveWrite ==
    /\ writer.phase = "opened"
    /\ writer.fn = "save_config"
    /\ writer' = [writer EXCEPT !.phase = "idle"]
    /\ cfgFile' = ConfigFile(writer.data[1])
    /\ UNCHANGED <<pc, stop, once, last_block, last_domains, stateFile, tick,
                   prevTick, gateVars, hostsVars, fs, observed, environ,
                   policyVars, callVars, stdioVars>>

SaveNext ==
    \/ Boot
    \/ \E scan \in ScansOn(platform) \cap LoopScans,
          fallback \in FallbacksOn(platform),
          totals \in TotalsOn(platform) \cap LoopTotals,
          signalled \in BOOLEAN :
            Tick(scan, fallback, totals, "none", signalled)
    \/ Signal
    \/ Exit
    \/ \E config \in SaveConfigs : SaveOpen(config)
    \/ SaveWrite

SpecSave == SaveInit /\ [][SaveNext]_vars

(***************************************************************************)
(* SpecReload: run_loop, continuous, while the process-matching part of    *)
(* the configuration is edited                                             *)
(***************************************************************************)
(* The same as K_normal but for the process-matching part. *)
K_grace == [K_normal EXCEPT !.process.active_grace_seconds = 2]
K_badwatch == [K_normal EXCEPT !.process.watch_regex = BAD_WATCH]

ReloadConfigFiles ==
    {ConfigCorrupt} \cup {ConfigFile(c) : c \in {K_reward, K_normal, K_grace, K_badwatch}}

(* What else goes wrong in a tick: nothing, or the write of the hosts file. *)
ReloadFaults == {"none", "write_error"}

ReloadInit ==
    /\ pc = "boot"
    /\ stop = FALSE
    /\ once = FALSE
    /\ cfgFile \in ReloadConfigFiles
    /\ last_block = None
    /\ last_domains = None
    /\ stateFile = None
    /\ tick = NoTick
    /\ prevTick = NoTick
    /\ platform \in LoopPlatforms
    /\ clock = LoopStart
    /\ gate = ProcessGate(DEFAULT_PROCESS_CONFIG)
    /\ polled = NoPoll
    /\ hosts = <<"x", "NL">>
    /\ calls = <<>>
    /\ WriteIdle
    /\ PolicyIdle
    /\ CallIdle
    /\ StdioIdle

ReloadNext ==
    \/ Boot
    \/ \E scan \in ScansOn(platform) \cap LoopScans,
          fallback \in FallbacksOn(platform),
          totals \in TotalsOn(platform) \cap LoopTotals,
          fault \in ReloadFaults,
          signalled \in BOOLEAN :
            Tick(scan, fallback, totals, fault, signalled)
    \/ \E scan \in ScansOn(platform) \cap LoopScans : TickRaises(scan)
    \/ Signal
    \/ Exit
    \/ \E file \in ReloadConfigFiles : EditConfig(file)

SpecReload == ReloadInit /\ [][ReloadNext]_vars

(***************************************************************************)
(* SpecWrite: the two file writes, step by step, under a reader and crashes *)
(***************************************************************************)
(* json.dumps(payload, ensure_ascii=False) + "\n", daemon.py:45: one atom  *)
(* per brace and per member.                                               *)
json_dumps(payload) ==
    <<"{", ToString(payload.timestamp_unix), ToString(payload.block),
      ToString(payload.process_running), ToString(payload.process_active),
      ToString(payload.evidence), ToString(payload.enabled),
      ToString(payload.reward_mode), ToString(payload.poll_interval_seconds),
      payload.daemon_version, payload.compat_version, "}">>

state_text(payload) == json_dumps(payload) \o <<"NL">>

WritePayloads ==
    {StatePayload(LoopStart, b, [running |-> b, active |-> b, evidence |-> <<>>],
                  DEFAULT_CONFIG) : b \in BOOLEAN}

WriteInit ==
    /\ environ \in Environs
    /\ fs \in {[p \in Paths |-> IF p = hosts_path(environ) THEN Some(text) ELSE None] :
                text \in LoopHostsFiles}
    /\ writer = NoWrite
    /\ observed = NoObservation
    /\ hosts = <<>>
    /\ calls = <<>>
    /\ GateIdle
    /\ LoopIdle
    /\ PolicyIdle
    /\ CallIdle
    /\ StdioIdle

Job(fn, path, tmp, data) ==
    [phase |-> "open", fn |-> fn, path |-> path, tmp |-> tmp, data |-> data,
     old |-> fs[path], n |-> writer.n + 1]

(* apply_hosts up to the comparison, hosts.py:79-92: the file is read in   *)
(* one piece and nothing is written when the text would not change.        *)
BeginApplyHosts(domains, block) ==
    /\ writer.phase \in {"idle", "crashed"}
    /\ writer.n < MaxWrites
    /\ LET path == hosts_path(environ)
           r == apply_hosts(fs[path][1], domains, block)
       IN  /\ fs[path] # None
           /\ writer' = IF r.wrote
                        THEN Job("apply_hosts", path, hosts_tmp_path(path), r.text)
                        ELSE [NoWrite EXCEPT !.n = writer.n + 1]
    /\ UNCHANGED <<fs, observed, environ, hostsVars, gateVars, loopVars, policyVars, callVars, stdioVars>>

(* _write_state up to the write, daemon.py:42-44 *)
BeginWriteState(payload) ==
    /\ writer.phase \in {"idle", "crashed"}
    /\ writer.n < MaxWrites
    /\ LET path == state_path(environ)
       IN  writer' = Job("_write_state", path, state_tmp_path(path), state_text(payload))
    /\ UNCHANGED <<fs, observed, environ, hostsVars, gateVars, loopVars, policyVars, callVars, stdioVars>>

(* write_text opens its file for writing, which creates or empties it.     *)
OpenTmp ==
    /\ writer.phase = "open"
    /\ fs' = [fs EXCEPT ![writer.tmp] = Some(<<>>)]
    /\ writer' = [writer EXCEPT !.phase = "write"]
    /\ UNCHANGED <<observed, environ, hostsVars, gateVars, loopVars, policyVars, callVars, stdioVars>>

(* ... and then the text reaches the file piece by piece. *)
WriteChunk(k) ==
    /\ writer.phase = "write"
    /\ LET done == Len(fs[writer.tmp][1])
       IN  /\ done + k <= Len(writer.data)
           /\ fs' = [fs EXCEPT ![writer.tmp] = Some(SubSeq(writer.data, 1, done + k))]
    /\ UNCHANGED <<writer, observed, environ, hostsVars, gateVars, loopVars, policyVars, callVars, stdioVars>>

(* write_text returns once the whole text is in the file. *)
CloseTmp ==
    /\ writer.phase = "write"
    /\ fs[writer.tmp] = Some(writer.data)
    /\ writer' = [writer EXCEPT !.phase = "replace"]
    /\ UNCHANGED <<fs, observed, environ, hostsVars, gateVars, loopVars, policyVars, callVars, stdioVars>>

(* tmp_path.replace(path), hosts.py:96 and daemon.py:46: one rename, which *)
(* leaves a file renamed to itself as it is.  The chmod that follows in    *)
(* _write_state does not touch the content.                                *)
Replace ==
    /\ writer.phase = "replace"
    /\ fs' = IF writer.tmp = writer.path THEN fs
             ELSE [fs EXCEPT ![writer.path] = fs[writer.tmp], ![writer.tmp] = None]
    /\ writer' = [writer EXCEPT !.phase = "idle"]
    /\ UNCHANGED <<observed, environ, hostsVars, gateVars, loopVars, policyVars, callVars, stdioVars>>

(* The process dies between two steps of a write; the files stay as they   *)
(* are.                                                                    *)
Crash ==
    /\ writer.phase \in {"open", "write", "replace"}
    /\ writer' = [writer EXCEPT !.phase = "crashed"]
    /\ UNCHANGED <<fs, observed, environ, hostsVars, gateVars, loopVars, policyVars, callVars, stdioVars>>

(* Another process reads the hosts file or the state file. *)
Observe(path) ==
    /\ LET during == writer.phase # "idle" /\ writer.path = path
       IN  observed' = [seen |-> TRUE, path |-> path, content |-> fs[path],
                        old |-> IF during THEN writer.old ELSE fs[path],
                        new |-> IF during THEN Some(writer.data) ELSE fs[path],
                        phase |-> IF during THEN writer.phase ELSE "idle",
                        partial |-> /\ during
                                    /\ fs[writer.tmp] # None
                                    /\ fs[writer.tmp] # Some(<<>>)
                                    /\ fs[writer.tmp] # Some(writer.data)]
    /\ observed' # observed
    /\ UNCHANGED <<fs, writer, environ, hostsVars, gateVars, loopVars, policyVars, callVars, stdioVars>>

WriteNext ==
    \/ \E a \in HostsArgs : BeginApplyHosts(a[1], a[2])
    \/ \E payload \in WritePayloads : BeginWriteState(payload)
    \/ OpenTmp
    \/ \E k \in 1..2 : WriteChunk(k)
    \/ CloseTmp
    \/ Replace
    \/ Crash
    \/ \E path \in {hosts_path(environ), state_path(environ)} : Observe(path)

SpecWrite == WriteInit /\ [][WriteNext]_vars

(***************************************************************************)
(* SpecPolicy: block_decision called, and called again later, with the     *)
(* same arguments                                                          *)
(***************************************************************************)
MaxDecisions == 2
MaxWaits == 1

(* The wall clock starts at 08:59:00 local time; the timer deadline of the *)
(* configurations that have one is 09:00:00.                               *)
PolicyStart == 9 * 3600 - 60
PolicyDeadline == 9 * 3600

PolicyTimeBlocks ==
    {<<>>,
     <<Window(9, 0, 17, 0)>>,
     <<Window(17, 0, 9, 0)>>,
     <<Window(22, 0, 7, 0), Window(9, 0, 17, 0)>>}

PolicyConfigs ==
    {[DEFAULT_CONFIG EXCEPT !.enabled = e, !.reward_mode = r,
                            !.block_until_unix = d, !.time_blocks = w] :
        e \in BOOLEAN, r \in BOOLEAN, d \in {0, PolicyDeadline},
        w \in PolicyTimeBlocks}

(* now_unix: left out, or a second before, at, or a second after the       *)
(* deadline.                                                               *)
PolicyNows ==
    {None, Some(PolicyDeadline - 1), Some(PolicyDeadline), Some(PolicyDeadline + 1)}

(* The arguments of the calls are drawn at the start. *)
PolicyInit ==
    /\ decided \in {[NoDecision EXCEPT !.config = c, !.process_active = a,
                                       !.now_unix = t] :
                        c \in PolicyConfigs, a \in BOOLEAN, t \in PolicyNows}
    /\ prevDecided = NoDecision
    /\ windowed = NoWindowCall
    /\ platform = "Linux"
    /\ clock = PolicyStart
    /\ gate = ProcessGate(DEFAULT_PROCESS_CONFIG)
    /\ polled = NoPoll
    /\ hosts = <<>>
    /\ calls = <<>>
    /\ LoopIdle
    /\ WriteIdle
    /\ CallIdle
    /\ StdioIdle

(* block_decision(config, process_active, now_unix=...), policy.py:82-117: *)
(* ts is now_unix, or time.time() when it is left out (line 97); the       *)
(* windows are asked without now_local (line 101), so each of them reads   *)
(* time.localtime() at the moment of the call (line 66).                   *)
Decide ==
    /\ decided.n < MaxDecisions
    /\ LET ts == IF decided.now_unix = None THEN clock ELSE decided.now_unix[1]
       IN  decided' = [decided EXCEPT
                          !.n = decided.n + 1, !.ts = ts, !.wall = clock,
                          !.decision = block_decision(decided.config,
                                                      decided.process_active, ts,
                                                      LocalMinutes(clock))]
    /\ prevDecided' = decided
    /\ UNCHANGED <<windowed, hostsVars, gateVars, loopVars, writeVars, callVars,
                   stdioVars>>

(* A minute passes. *)
Wait ==
    /\ clock + 60 <= PolicyStart + 60 * MaxWaits
    /\ clock' = clock + 60
    /\ UNCHANGED <<platform, gate, polled, policyVars, hostsVars, loopVars, writeVars,
                   callVars, stdioVars>>

PolicyNext == Decide \/ Wait

SpecPolicy == PolicyInit /\ [][PolicyNext]_vars

(***************************************************************************)
(* SpecExpand: _expand_blocklist called with a blocklist                   *)
(***************************************************************************)
MaxEntries == 3

WWW == <<"www">>
WWW_X_COM == <<"www", "x.com">>

(* "x.com", "HTTPS://X.COM/home", "x.com:443", "www.x.com", "www",         *)
(* "twitter.com", and "x com", which is no domain.                         *)
SampleEntries ==
    {Entry(X_COM, TRUE), Spelled(X_COM, TRUE, "url"), Spelled(X_COM, TRUE, "port"),
     Entry(WWW_X_COM, TRUE), Entry(WWW, TRUE), Entry(TWITTER_COM, TRUE),
     Entry(<<"x com">>, FALSE)}

RECURSIVE BlocklistsUpTo(_)
BlocklistsUpTo(n) ==
    IF n = 0 THEN {<<>>}
    ELSE LET shorter == BlocklistsUpTo(n - 1)
         IN  shorter \cup {Append(b, e) : b \in {c \in shorter : Len(c) = n - 1},
                                          e \in SampleEntries}

(* The arguments of the call are drawn at the start. *)
ExpandInit ==
    /\ expanded \in {[NoExpansion EXCEPT !.blocklist = b, !.include_www = w] :
                        b \in BlocklistsUpTo(MaxEntries), w \in BOOLEAN}
    /\ parsed = NoParse
    /\ probed = NoProbe
    /\ walk = NoWalk
    /\ hosts = <<>>
    /\ calls = <<>>
    /\ GateIdle
    /\ LoopIdle
    /\ WriteIdle
    /\ PolicyIdle
    /\ StdioIdle

(* domains = _expand_blocklist(gate_config.blocklist,                      *)
(* gate_config.include_www), daemon.py:113                                 *)
Expand ==
    /\ expanded.n = 0
    /\ expanded' = [expanded EXCEPT
                        !.n = 1,
                        !.domains = _expand_blocklist(expanded.blocklist,
                                                      expanded.include_www)]
    /\ UNCHANGED <<parsed, probed, walk, hostsVars, gateVars, loopVars, writeVars,
                   policyVars, stdioVars>>

ExpandNext == Expand

SpecExpand == ExpandInit /\ [][ExpandNext]_vars

(***************************************************************************)
(* SpecStdio: native-host/process_gate.py, run_watch_stdio and its reader  *)
(* thread                                                                  *)
(***************************************************************************)
MaxMsgs == 2
MaxBeats == 1

(* What _native_read_message finds on stdin: a poll with an id, another     *)
(* JSON message, or bytes that are no JSON.                                *)
Poll(id) == [type |-> "poll", id |-> id]
OtherMessage == [type |-> "other", id |-> 0]
Malformed == [type |-> "malformed", id |-> 0]

(* The None that the reader queues at the end of its input. *)
EndOfInput == [type |-> "none", id |-> 0]

(* A status message on stdout; reply_to is None on an unsolicited one. *)
Status(reply_to) == [type |-> "status", reply_to |-> reply_to]

(* The inputs of up to n messages; the poll at place i carries the id i. *)
RECURSIVE StdinsUpTo(_)
StdinsUpTo(n) ==
    IF n = 0 THEN {<<>>}
    ELSE LET shorter == StdinsUpTo(n - 1)
         IN  shorter \cup {Append(t, m) : t \in {u \in shorter : Len(u) = n - 1},
                                          m \in {Poll(n), OtherMessage, Malformed}}

(* threading.Thread(...).start() has run: both threads stand before the    *)
(* test of their loop.  The peer writes its messages and closes stdin.     *)
StdioInit ==
    /\ stdin \in {[pending |-> t, read |-> <<>>] : t \in StdinsUpTo(MaxMsgs)}
    /\ inbox = <<>>
    /\ stopEvent = FALSE
    /\ reader = "test"
    /\ main = [pc |-> "test", last_block_set |-> FALSE, beats |-> 0,
               broken_pipe |-> FALSE]
    /\ stdout = <<>>
    /\ hosts = <<>>
    /\ calls = <<>>
    /\ GateIdle
    /\ LoopIdle
    /\ WriteIdle
    /\ PolicyIdle
    /\ CallIdle

StdioRest == <<hostsVars, gateVars, loopVars, writeVars, policyVars, callVars>>

(* _stdin_reader: while not stop.is_set() *)
ReaderTest ==
    /\ reader = "test"
    /\ reader' = IF stopEvent THEN "returned" ELSE "read"
    /\ UNCHANGED <<stdin, inbox, stopEvent, main, stdout, StdioRest>>

(* msg = _native_read_message() and queue.put: the end of the input and a  *)
(* message that does not parse both read as None.                          *)
ReaderRead ==
    /\ reader = "read"
    /\ IF stdin.pending = <<>> \/ Head(stdin.pending) = Malformed
       THEN /\ inbox' = Append(inbox, EndOfInput)
            /\ stdin' = [stdin EXCEPT !.pending = IF @ = <<>> THEN @ ELSE Tail(@)]
            /\ reader' = "set_stop"
       ELSE /\ inbox' = Append(inbox, Head(stdin.pending))
            /\ stdin' = [pending |-> Tail(stdin.pending),
                         read |-> Append(stdin.read, Head(stdin.pending))]
            /\ reader' = "test"
    /\ UNCHANGED <<stopEvent, main, stdout, StdioRest>>

(* stop.set(); return *)
ReaderSetStop ==
    /\ reader = "set_stop"
    /\ stopEvent' = TRUE
    /\ reader' = "returned"
    /\ UNCHANGED <<stdin, inbox, main, stdout, StdioRest>>

(* run_watch_stdio: while not stop.is_set() *)
MainTest ==
    /\ main.pc = "test"
    /\ main' = [main EXCEPT !.pc = IF stopEvent THEN "returned" ELSE "status"]
    /\ UNCHANGED <<stdin, inbox, stopEvent, reader, stdout, StdioRest>>

(* Lines 217-241: the unsolicited status.  It is due when nothing was sent *)
(* yet; due says whether the block state changed or the heartbeat ran out, *)
(* and pipe_ok whether stdout still takes the message.                     *)
MainStatus(due, pipe_ok) ==
    /\ main.pc = "status"
    /\ due => main.beats < MaxBeats
    /\ IF ~main.last_block_set \/ due
       THEN IF pipe_ok
            THEN /\ stdout' = Append(stdout, Status(None))
                 /\ main' = [main EXCEPT !.pc = "drain", !.last_block_set = TRUE,
                                          !.beats = IF due THEN @ + 1 ELSE @]
            ELSE /\ main' = [main EXCEPT !.pc = "returned", !.broken_pipe = TRUE]
                 /\ UNCHANGED stdout
       ELSE /\ pipe_ok
            /\ main' = [main EXCEPT !.pc = "drain"]
            /\ UNCHANGED stdout
    /\ UNCHANGED <<stdin, inbox, stopEvent, reader, StdioRest>>

(* Lines 244-269: one inbox.get_nowait() and what follows it: Empty leaves *)
(* the drain, None returns, a poll is answered, anything else is dropped.  *)
MainDrain(pipe_ok) ==
    /\ main.pc = "drain"
    /\ IF inbox = <<>>
       THEN /\ pipe_ok
            /\ main' = [main EXCEPT !.pc = "sleep"]
            /\ UNCHANGED <<inbox, stdout>>
       ELSE /\ inbox' = Tail(inbox)
            /\ IF Head(inbox) = EndOfInput
               THEN /\ pipe_ok
                    /\ main' = [main EXCEPT !.pc = "returned"]
                    /\ UNCHANGED stdout
               ELSE IF Head(inbox).type = "poll"
               THEN IF pipe_ok
                    THEN /\ stdout' = Append(stdout, Status(Some(Head(inbox).id)))
                         /\ UNCHANGED main
                    ELSE /\ main' = [main EXCEPT !.pc = "returned",
                                                 !.broken_pipe = TRUE]
                         /\ UNCHANGED stdout
               ELSE /\ pipe_ok
                    /\ UNCHANGED <<main, stdout>>
    /\ UNCHANGED <<stdin, stopEvent, reader, StdioRest>>

(* time.sleep(max(0.05, config.poll_interval_seconds)) *)
MainSleep ==
    /\ main.pc = "sleep"
    /\ main' = [main EXCEPT !.pc = "test"]
    /\ UNCHANGED <<stdin, inbox, stopEvent, reader, stdout, StdioRest>>

StdioNext ==
    \/ ReaderTest
    \/ ReaderRead
    \/ ReaderSetStop
    \/ MainTest
    \/ \E due, pipe_ok \in BOOLEAN : MainStatus(due, pipe_ok)
    \/ \E pipe_ok \in BOOLEAN : MainDrain(pipe_ok)
    \/ MainSleep

SpecStdio == StdioInit /\ [][StdioNext]_vars

(***************************************************************************)
(* SpecProbe: hosts_has_block called on a path                             *)
(***************************************************************************)
(* The path names no file, or a file with one of the hosts texts. *)
ProbeInit ==
    /\ probed \in {[NoProbe EXCEPT !.exists = e] : e \in BOOLEAN}
    /\ hosts \in (IF probed.exists THEN HostsFiles ELSE {<<>>})
    /\ expanded = NoExpansion
    /\ parsed = NoParse
    /\ walk = NoWalk
    /\ calls = <<>>
    /\ GateIdle
    /\ LoopIdle
    /\ WriteIdle
    /\ PolicyIdle
    /\ StdioIdle

Probe ==
    /\ probed.n = 0
    /\ probed' = [probed EXCEPT !.n = 1,
                                !.result = hosts_has_block(probed.exists, hosts)]
    /\ UNCHANGED <<expanded, parsed, walk, hostsVars, gateVars, loopVars, writeVars,
                   policyVars, stdioVars>>

ProbeNext == Probe

SpecProbe == ProbeInit /\ [][ProbeNext]_vars

(***************************************************************************)
(* SpecDuration: parse_duration_seconds called with a text                 *)
(***************************************************************************)
MaxChars == 4

DurationChars == {"0", "3", "h", "m", "H", "SP", "-", "x"}

RECURSIVE DurationsUpTo(_)
DurationsUpTo(n) ==
    IF n = 0 THEN {<<>>}
    ELSE LET shorter == DurationsUpTo(n - 1)
         IN  shorter \cup {Append(t, c) : t \in {u \in shorter : Len(u) = n - 1},
                                          c \in DurationChars}

(* "3d3h", "3h 30m", " 3h 3m ", "3h x", "3 h 30 m ", "3 h 3 0 m", "3s3s3H" *)
SampleDurations ==
    {<<"3", "d", "3", "h">>,
     <<"3", "h", "SP", "3", "0", "m">>,
     <<"SP", "3", "h", "SP", "3", "m", "SP">>,
     <<"3", "h", "SP", "x">>,
     <<"3", "SP", "h", "SP", "3", "0", "SP", "m", "SP">>,
     <<"3", "SP", "h", "SP", "3", "SP", "0", "SP", "m">>,
     <<"3", "s", "3", "s", "3", "H">>}

(* The argument of the call is drawn at the start. *)
DurationInit ==
    /\ parsed \in {[NoParse EXCEPT !.text = t] :
                      t \in DurationsUpTo(MaxChars) \cup SampleDurations}
    /\ expanded = NoExpansion
    /\ probed = NoProbe
    /\ walk = NoWalk
    /\ hosts = <<>>
    /\ calls = <<>>
    /\ GateIdle
    /\ LoopIdle
    /\ WriteIdle
    /\ PolicyIdle
    /\ StdioIdle

ParseDuration ==
    /\ parsed.n = 0
    /\ LET r == parse_duration_seconds(parsed.text)
       IN  parsed' = [parsed EXCEPT !.n = 1, !.raised = r.raised, !.value = r.value]
    /\ UNCHANGED <<expanded, probed, walk, hostsVars, gateVars, loopVars, writeVars,
                   policyVars, stdioVars>>

DurationNext == ParseDuration

SpecDuration == DurationInit /\ [][DurationNext]_vars

(***************************************************************************)
(* SpecWindow: is_time_block_active called with a window and a local time  *)
(***************************************************************************)
WindowHours == {0, 9, 23, 24}
WindowMinutes == {0, 59}

Windows ==
    {Window(sh, sm, eh, em) : sh \in WindowHours, sm \in WindowMinutes,
                              eh \in WindowHours, em \in WindowMinutes}

(* The arguments of the call are drawn at the start. *)
WindowInit ==
    /\ windowed \in {[NoWindowCall EXCEPT !.window = window, !.now_minutes = now_minutes] :
                        window \in Windows, now_minutes \in 0..(MINUTES_PER_DAY - 1)}
    /\ decided = NoDecision
    /\ prevDecided = NoDecision
    /\ hosts = <<>>
    /\ calls = <<>>
    /\ GateIdle
    /\ LoopIdle
    /\ WriteIdle
    /\ CallIdle
    /\ StdioIdle

(* is_time_block_active(value, now_local=...), policy.py:60-73; a window   *)
(* normalize_time_block refuses raises ValueError.                         *)
CheckWindow(window, now_minutes) ==
    /\ windowed.n = 0
    /\ windowed' = [n |-> 1, window |-> window, now_minutes |-> now_minutes,
                    raised |-> ~normalize_time_block_ok(window),
                    active |-> /\ normalize_time_block_ok(window)
                               /\ is_time_block_active(window, now_minutes)]
    /\ UNCHANGED <<decided, prevDecided, hostsVars, gateVars, loopVars, writeVars,
                   callVars, stdioVars>>

WindowNext == CheckWindow(windowed.window, windowed.now_minutes)

SpecWindow == WindowInit /\ [][WindowNext]_vars

(***************************************************************************)
(* Vocabulary of the hosts-file properties                                 *)
(***************************************************************************)
IsStartLine(line) == strip(line) = MANAGED_START
IsEndLine(line) == strip(line) = MANAGED_END
IsMarkerLine(line) == IsStartLine(line) \/ IsEndLine(line)

StartLines(text) ==
    LET ls == splitlines(text) IN {i \in 1..Len(ls) : IsStartLine(ls[i])}
EndLines(text) ==
    LET ls == splitlines(text) IN {i \in 1..Len(ls) : IsEndLine(ls[i])}
HasMarkerLine(text) == StartLines(text) # {} \/ EndLines(text) # {}

SetMax(S) == CHOOSE m \in S : \A k \in S : k <= m

(* Line i lies outside every managed region: it is no marker line and the  *)
(* closest marker line above it, if there is one, is an end marker.  (A    *)
(* region opened by a start marker runs to the next end marker, or to the  *)
(* end of the file when there is none.)                                    *)
IsOutside(ls, i) ==
    LET above == {j \in 1..(i - 1) : IsMarkerLine(ls[j])}
    IN  /\ ~IsMarkerLine(ls[i])
        /\ above = {} \/ IsEndLine(ls[SetMax(above)])

RECURSIVE OutsideFrom(_, _)
OutsideFrom(ls, i) ==
    IF i > Len(ls) THEN <<>>
    ELSE (IF IsOutside(ls, i) THEN <<ls[i]>> ELSE <<>>) \o OutsideFrom(ls, i + 1)

UnmanagedLines(text) == OutsideFrom(splitlines(text), 1)

InsideLines(text) ==
    LET ls == splitlines(text)
    IN  {ls[i] : i \in {j \in 1..Len(ls) : ~IsOutside(ls, j) /\ ~IsMarkerLine(ls[j])}}

Occurrences(ls, line) == Cardinality({i \in 1..Len(ls) : ls[i] = line})

SameArgs(c1, c2) == c1.domains = c2.domains /\ c1.should_block = c2.should_block

(* C4: a second apply_hosts call with the same arguments, made right after *)
(* the first, returns changed = false, writes nothing and leaves the file  *)
(* as the first call left it.                                              *)
C4_Idempotent ==
    \A i \in 1..(Len(calls) - 1) :
        SameArgs(calls[i], calls[i + 1]) =>
            /\ ~calls[i + 1].changed
            /\ ~calls[i + 1].wrote
            /\ calls[i + 1].after = calls[i].after

(* C5: for every apply_hosts call the sequence of lines outside the        *)
(* managed regions is the same after the call as before it.                *)
C5_UnmanagedPreserved ==
    \A i \in 1..Len(calls) :
        UnmanagedLines(calls[i].after) = UnmanagedLines(calls[i].before)

(* C7: after apply_hosts with should_block and a non-empty domain list the *)
(* file has exactly one start-marker line and one end-marker line, the     *)
(* end marker is the last line, and between the markers stand, for each    *)
(* domain in list order, its "0.0.0.0" entry then its "::1" entry.         *)
C7_BlockShape ==
    \A i \in 1..Len(calls) :
        LET c == calls[i]
            ls == splitlines(c.after)
            n == Len(c.domains)
        IN  (c.should_block /\ n > 0) =>
                /\ Cardinality(StartLines(c.after)) = 1
                /\ Cardinality(EndLines(c.after)) = 1
                /\ Len(ls) >= 2 * n + 2
                /\ ls[Len(ls)] = MANAGED_END
                /\ ls[Len(ls) - 2 * n - 1] = MANAGED_START
                /\ \A k \in 1..n :
                      /\ ls[Len(ls) - 2 * n - 1 + 2 * k - 1] = <<"V4">> \o c.domains[k]
                      /\ ls[Len(ls) - 2 * n - 1 + 2 * k] = <<"V6">> \o c.domains[k]
                /\ c.after[Len(c.after)] \in {"END", "NL"}

(* C7 witness: a block of two domains was written over a file that held an *)
(* unterminated managed block.                                             *)
C7_Witness ==
    \E i \in 1..Len(calls) :
        /\ calls[i].should_block /\ Len(calls[i].domains) = 2
        /\ StartLines(calls[i].before) # {} /\ EndLines(calls[i].before) = {}
        /\ UnmanagedLines(calls[i].before) # <<>>

(* C8: after apply_hosts with should_block false or no domains the file    *)
(* has no marker line and none of the lines that stood inside a managed    *)
(* region, and changed is true exactly when the file had a marker line.    *)
C8_BlockRemoved ==
    \A i \in 1..Len(calls) :
        LET c == calls[i]
        IN  (~c.should_block \/ c.domains = <<>>) =>
                /\ ~HasMarkerLine(c.after)
                /\ \A line \in InsideLines(c.before) :
                      Occurrences(splitlines(c.after), line)
                          <= Occurrences(UnmanagedLines(c.before), line)
                /\ c.changed <=> HasMarkerLine(c.before)

EndsBlank(ls) == ls # <<>> /\ strip(ls[Len(ls)]) = <<>>

Grown(i) == Len(UnmanagedLines(calls[i].after)) - Len(UnmanagedLines(calls[1].before))

C38_WitnessSeparatorLost ==
    /\ Len(calls) = 4
    /\ Grown(1) = 1 /\ Grown(2) = 0 /\ Grown(3) = 1 /\ Grown(4) = 1

(***************************************************************************)
(* Properties of the activity matcher                                      *)
(***************************************************************************)
Matched == polled.n > 0 /\ polled.matches # <<>>

FreshEvidence ==
    \E i \in 1..Len(polled.evidence) :
        polled.evidence[i] \in {"cpu", "child_cpu", "net"}

GraceReported ==
    \E i \in 1..Len(polled.evidence) : polled.evidence[i] = "grace"

WithinGrace ==
    /\ polled.before # 0
    /\ polled.now - polled.before <= gate.config.active_grace_seconds

(* C9: in a tick with a non-empty MatchSet and no fresh evidence the       *)
(* matcher reports active, with "grace" in the evidence, exactly when      *)
(* last_active_at is non-zero and now - last_active_at <= grace_seconds;   *)
(* otherwise it reports inactive.                                          *)
C9_GraceWindow ==
    (Matched /\ ~polled.active_now) =>
        /\ polled.active <=> WithinGrace
        /\ GraceReported <=> WithinGrace

(* C9 witness: a tick without fresh evidence that falls exactly on the end *)
(* of the grace window and is reported active.                             *)
C9_Witness ==
    /\ Matched /\ ~polled.active_now
    /\ polled.before # 0
    /\ polled.now - polled.before = gate.config.active_grace_seconds
    /\ polled.active /\ GraceReported

(* C10: after a tick with a non-empty MatchSet last_active_at is that      *)
(* tick's now if cpu, child_cpu or net evidence was seen and its previous  *)
(* value otherwise; it never moves back.                                   *)
C10_LastActiveAt ==
    Matched =>
        /\ gate.last_active_at = (IF FreshEvidence THEN polled.now ELSE polled.before)
        /\ gate.last_active_at >= polled.before

(* C10 witness: a tick reported active by grace alone, some time after the *)
(* last fresh evidence.                                                    *)
C10_Witness ==
    /\ Matched /\ polled.active /\ GraceReported /\ ~FreshEvidence
    /\ polled.before # 0 /\ polled.before < polled.now
    /\ gate.last_active_at = polled.before

EmptyMatchSet ==
    /\ polled.n > 0
    /\ platform \in {"Darwin", "Linux"}
    /\ polled.scan_ok
    /\ polled.matches = <<>>

(* C11: a tick whose MatchSet is empty reports running = false and         *)
(* active = false and leaves last_active_at at zero and no stored network  *)
(* samples; and a tick that finds a focus process again, without fresh     *)
(* evidence, after the state was reset reports inactive.                   *)
C11_EmptyMatchSetResets ==
    /\ [](EmptyMatchSet =>
            /\ ~polled.running /\ ~polled.active
            /\ gate.last_active_at = 0
            /\ gate.prev_net_totals = <<>>)
    /\ [][(EmptyMatchSet /\ polled' # polled /\ Matched' /\ ~polled'.active_now)
            => ~polled'.active]_vars

(* C11 witness: the focus process disappears while the grace window of its *)
(* last activity is still open, and the tick resets the state.             *)
C11_Witness ==
    /\ EmptyMatchSet
    /\ polled.before # 0
    /\ polled.now - polled.before <= gate.config.active_grace_seconds
    /\ gate.last_active_at = 0
    /\ ~polled.active

Scanned == polled.n > 0 /\ platform \in {"Darwin", "Linux"} /\ polled.scan_ok

ScanFailedPoll == polled.n > 0 /\ platform \in {"Darwin", "Linux"} /\ ~polled.scan_ok

(* C35: a tick whose scan fails leaves last_active_at and the stored       *)
(* network samples as they were, and the next tick that finds a focus      *)
(* process without fresh evidence is active exactly when it lies within    *)
(* the grace window of the evidence seen before the failure.               *)
C35_ScanFailureKeepsState ==
    /\ [](ScanFailedPoll =>
            /\ gate.last_active_at = polled.before
            /\ gate.prev_net_totals = polled.samples_before)
    /\ [][(ScanFailedPoll /\ polled' # polled /\ Matched' /\ ~polled'.active_now)
            => (polled'.active <=>
                  /\ polled.before # 0
                  /\ polled'.now - polled.before <= gate.config.active_grace_seconds)]_vars

(* C35 witness: the scan fails inside the grace window of earlier evidence *)
(* with a network sample stored, and both are kept.                        *)
C35_Witness ==
    /\ ScanFailedPoll
    /\ polled.before # 0
    /\ polled.now - polled.before <= gate.config.active_grace_seconds
    /\ polled.samples_before # <<>>
    /\ gate.last_active_at = polled.before
    /\ gate.prev_net_totals = polled.samples_before

(* C39: in every result of poll, on the fallback platform, after a failed  *)
(* scan, with an empty MatchSet and with focus processes, active implies   *)
(* running, and so does the pair of fields the state snapshot takes from   *)
(* the result.                                                             *)
C39_ActiveImpliesRunning ==
    polled.n > 0 =>
        /\ polled.active => polled.running
        /\ LET s == StatePayload(polled.now, FALSE, polled, DEFAULT_CONFIG)
           IN  s.process_active => s.process_running
        /\ (ScanFailedPoll \/ EmptyMatchSet) => ~polled.active /\ ~polled.running
        /\ platform \notin {"Darwin", "Linux"} => polled.active = polled.running

(* C39 witness: a focus process without fresh evidence is reported active  *)
(* inside the grace window, and running.                                   *)
C39_Witness ==
    /\ Matched
    /\ ~polled.active_now /\ GraceReported
    /\ polled.active /\ polled.running

(* On the fallback platform the query found the focus process. *)
C39_WitnessFallback ==
    /\ polled.n > 0
    /\ platform \notin {"Darwin", "Linux"}
    /\ polled.active /\ polled.running

(* A focus process outside the grace window: running and not active. *)
C39_WitnessIdle ==
    /\ Matched
    /\ polled.running /\ ~polled.active

(* The state snapshot of the loop carries the same pair of fields. *)
C39_SnapshotActiveImpliesRunning ==
    stateFile # None => (stateFile[1].process_active => stateFile[1].process_running)

(* The pids one step below a set of pids in the snapshot, and the pids     *)
(* below the start pid at any depth.                                       *)
ChildPids(S) ==
    {walk.processes[i].pid :
        i \in {j \in 1..Len(walk.processes) : walk.processes[j].ppid \in S}}

RECURSIVE BelowFrom(_)
BelowFrom(S) ==
    LET more == S \cup ChildPids(S)
    IN  IF more = S THEN S ELSE BelowFrom(more)

Below == BelowFrom(ChildPids({walk.pid}))

WalkResultRight ==
    /\ \A i, j \in 1..Len(walk.out) : i # j => walk.out[i].pid # walk.out[j].pid
    /\ SeqToSet(walk.out)
          = {walk.processes[i] :
                i \in {j \in 1..Len(walk.processes) : walk.processes[j].pid \in Below}}
    /\ walk.out = _descendants_of(walk.pid, walk.children_map)

(* C40: _descendants_of returns for every snapshot, also when the parent   *)
(* links form a cycle or a process is its own parent; no turn of the loop  *)
(* puts a process into the result twice, and the result holds each process *)
(* that can be reached from the start pid through the children map, once.  *)
C40_DescendantsTerminate ==
    /\ <>(walk.pc = "returned")
    /\ [](Len(walk.out) <= Len(walk.processes))
    /\ [](walk.pc = "returned" => WalkResultRight)

(* C40 witness: the start process lies on a cycle of two or more, the walk *)
(* met it again on the stack and skipped it, and has returned with the     *)
(* start process itself in the result.                                     *)
C40_Witness ==
    /\ walk.pc = "returned"
    /\ Len(walk.out) >= 2
    /\ \E i \in 1..Len(walk.out) :
          walk.out[i].pid = walk.pid /\ walk.out[i].ppid # walk.pid

(* A process listed as its own parent: the result is that process. *)
C40_WitnessSelfLoop ==
    /\ walk.pc = "returned"
    /\ \E i \in 1..Len(walk.processes) :
          /\ walk.processes[i].pid = walk.pid
          /\ walk.processes[i].ppid = walk.pid
          /\ walk.out = <<walk.processes[i]>>

(* A turn of the loop that found its process in seen. *)
C40_WitnessSkipped ==
    /\ walk.pc = "loop"
    /\ walk.stack # <<>>
    /\ walk.stack[Len(walk.stack)].pid \in walk.seen

NoTerminal(tty) ==
    \/ tty = <<"?">>
    \/ tty = <<"?", "?">>
    \/ \E i \in 1..Len(tty) : tty[i] = "?"

MatchesPattern(proc) == WatchSearch(gate.config.watch_regex, proc.cmd)

InMatchSet(proc) ==
    MatchesPattern(proc) /\ (~gate.config.require_tty \/ ~NoTerminal(proc.tty))

(* C24: the MatchSet of a scan is the processes, in scan order, whose      *)
(* command line matches the watch pattern and which, when a terminal is    *)
(* required, have a terminal string other than "?", "??" and any string    *)
(* containing "?"; running is reported iff the MatchSet is non-empty.      *)
C24_MatchSet ==
    Scanned =>
        /\ polled.matches = SelectSeq(polled.processes, InMatchSet)
        /\ polled.running <=>
              \E i \in 1..Len(polled.processes) : InMatchSet(polled.processes[i])

(* C24 witness: with a terminal required, a focus process whose terminal   *)
(* string has a "?" in it is left out and another one on a real terminal   *)
(* is the whole MatchSet.                                                  *)
C24_Witness ==
    /\ Scanned /\ gate.config.require_tty
    /\ \E i \in 1..Len(polled.processes) :
          /\ MatchesPattern(polled.processes[i])
          /\ polled.processes[i].tty = <<"pts/", "?">>
    /\ polled.running
    /\ Len(polled.matches) = 1
    /\ polled.matches[1].tty = <<"pts/0">>

Evidence(kind) == \E i \in 1..Len(polled.evidence) : polled.evidence[i] = kind

CpuThreshold == gate.config.cpu_active_threshold_percent

SomeMatchAtThreshold ==
    \E i \in 1..Len(polled.matches) : polled.matches[i].cpu_percent >= CpuThreshold

(* C29 as stated: for every threshold value, a tick with a non-empty       *)
(* MatchSet reports active_now with evidence "cpu" iff some matched        *)
(* process has cpu_percent >= threshold.                                   *)
C29_CpuEvidence ==
    Matched => ((polled.active_now /\ Evidence("cpu")) <=> SomeMatchAtThreshold)

(* C29 amended: the same for every threshold above zero; with a threshold  *)
(* of zero no tick reports "cpu".                                          *)
C29_CpuEvidencePositive ==
    Matched =>
        /\ (polled.active_now /\ Evidence("cpu"))
              <=> (CpuThreshold > 0 /\ SomeMatchAtThreshold)
        /\ Evidence("cpu") => polled.active

(* C29 witness: a matched process whose cpu_percent equals the threshold.  *)
C29_Witness ==
    /\ Matched /\ CpuThreshold > 0
    /\ \A i \in 1..Len(polled.matches) : polled.matches[i].cpu_percent <= CpuThreshold
    /\ SomeMatchAtThreshold
    /\ polled.evidence = <<"cpu">> /\ polled.active_now

(* The process with this pid has the process ancestor among its parent,    *)
(* its parent's parent, and so on, by the ppid column of the scan.         *)
RECURSIVE DescendsFrom(_, _, _)
DescendsFrom(pid, ancestor, fuel) ==
    /\ fuel > 0
    /\ \E i \in 1..Len(polled.processes) :
          /\ polled.processes[i].pid = pid
          /\ \/ polled.processes[i].ppid = ancestor
             \/ DescendsFrom(polled.processes[i].ppid, ancestor, fuel - 1)

WorkingChild(proc, child) ==
    /\ DescendsFrom(child.pid, proc.pid, Len(polled.processes))
    /\ \A i \in 1..Len(polled.matches) : polled.matches[i].pid # child.pid
    /\ ~MatchesPattern(child)
    /\ child.tty = proc.tty
    /\ child.cpu_percent >= CpuThreshold

SomeWorkingChild ==
    \E i \in 1..Len(polled.matches), j \in 1..Len(polled.processes) :
        WorkingChild(polled.matches[i], polled.processes[j])

(* C30: with child evidence enabled and no matched process at the CPU      *)
(* threshold, the tick reports active_now with evidence "child_cpu" iff    *)
(* some descendant of a matched process, at any depth, is outside the      *)
(* MatchSet, does not match the watch pattern, is on that matched          *)
(* process's terminal and has cpu_percent >= threshold.                    *)
C30_ChildCpuEvidence ==
    (Matched /\ gate.config.consider_children_active /\ ~SomeMatchAtThreshold) =>
        ((polled.active_now /\ Evidence("child_cpu")) <=> SomeWorkingChild)

(* C30 witness: the only working descendant is a grandchild, below a child *)
(* that is idle.                                                           *)
C30_Witness ==
    /\ Matched /\ gate.config.consider_children_active /\ ~SomeMatchAtThreshold
    /\ Len(polled.matches) = 1 /\ Len(polled.processes) = 3
    /\ polled.processes[3].ppid = polled.processes[2].pid
    /\ polled.processes[2].ppid = polled.matches[1].pid
    /\ ~WorkingChild(polled.matches[1], polled.processes[2])
    /\ WorkingChild(polled.matches[1], polled.processes[3])
    /\ polled.evidence = <<"child_cpu">> /\ polled.active_now

Bytes(figures) == figures[1] + figures[2]

MatchedPids == {polled.matches[i].pid : i \in 1..Len(polled.matches)}

(* The network rule is switched on: the toggle, the platform and a         *)
(* threshold above zero.                                                   *)
NetEnabled ==
    /\ gate.config.enable_nettop
    /\ platform = "Darwin"
    /\ gate.config.net_active_threshold_bytes > 0

(* A completed scan with a non-empty MatchSet in which the network rule is *)
(* on and neither CPU rule was satisfied.                                  *)
NetTried ==
    /\ Scanned /\ polled.matches # <<>>
    /\ NetEnabled
    /\ ~Evidence("cpu") /\ ~Evidence("child_cpu")

(* nettop has a figure for the pid in this tick. *)
Sampled(pid) == pid \in MatchedPids /\ pid \in DOMAIN polled.totals

(* A sample was stored for the pid before the tick and the bytes grew by   *)
(* the threshold or more since it.                                         *)
Increased(pid) ==
    /\ Sampled(pid)
    /\ pid \in DOMAIN polled.samples_before
    /\ Bytes(polled.totals[pid]) - Bytes(polled.samples_before[pid])
          >= gate.config.net_active_threshold_bytes

NetEvidenceRule ==
    NetTried => (Evidence("net") <=> \E pid \in MatchedPids : Increased(pid))

(* C31 as stated: with the network rule on and no cpu or child_cpu         *)
(* evidence, the tick has evidence "net" iff some matched process has a    *)
(* stored sample and grew by the threshold since it, and every process     *)
(* that nettop sampled has its stored value replaced by the current one.   *)
C31_NetEvidence ==
    /\ NetEvidenceRule
    /\ NetTried =>
          \A pid \in MatchedPids :
              Sampled(pid) =>
                  /\ pid \in DOMAIN gate.prev_net_totals
                  /\ gate.prev_net_totals[pid] = polled.totals[pid]

(* The matched pids, in MatchSet order, up to and including the first one  *)
(* that grew by the threshold.                                             *)
RECURSIVE VisitedFrom(_)
VisitedFrom(pids) ==
    IF pids = <<>> THEN {}
    ELSE IF Increased(Head(pids)) THEN {Head(pids)}
    ELSE {Head(pids)} \cup VisitedFrom(Tail(pids))

Visited == VisitedFrom([i \in 1..Len(polled.matches) |-> polled.matches[i].pid])

(* C31 amended: the same, the stored value being replaced for the sampled  *)
(* processes up to and including the first one that grew by the threshold; *)
(* the processes behind it keep their earlier sample or none.              *)
C31_NetEvidenceUpToFirstHit ==
    /\ NetEvidenceRule
    /\ NetTried =>
          \A pid \in MatchedPids :
              IF Sampled(pid) /\ pid \in Visited
              THEN /\ pid \in DOMAIN gate.prev_net_totals
                   /\ gate.prev_net_totals[pid] = polled.totals[pid]
              ELSE /\ pid \in DOMAIN gate.prev_net_totals
                        <=> pid \in DOMAIN polled.samples_before
                   /\ pid \in DOMAIN gate.prev_net_totals =>
                        gate.prev_net_totals[pid] = polled.samples_before[pid]

(* C31 witness: the first process grew by the threshold and marks the tick *)
(* active; the second was sampled with a new figure and keeps its old      *)
(* stored value.                                                           *)
C31_Witness ==
    /\ NetTried /\ polled.evidence = <<"net">>
    /\ Increased("100")
    /\ Sampled("101") /\ "101" \in DOMAIN polled.samples_before
    /\ polled.totals["101"] # polled.samples_before["101"]
    /\ gate.prev_net_totals["100"] = polled.totals["100"]
    /\ gate.prev_net_totals["101"] = polled.samples_before["101"]

(* A first sample alone does not mark the tick active. *)
C31_WitnessFirstSample ==
    /\ NetTried /\ polled.samples_before = <<>>
    /\ Sampled("100") /\ Bytes(polled.totals["100"]) >= gate.config.net_active_threshold_bytes
    /\ ~Evidence("net")
    /\ gate.prev_net_totals["100"] = polled.totals["100"]

CpuSatisfied == CpuThreshold > 0 /\ SomeMatchAtThreshold

ChildCpuSatisfied ==
    gate.config.consider_children_active /\ CpuThreshold > 0 /\ SomeWorkingChild

(* The stored samples are those of before the tick, less the pids that     *)
(* left the MatchSet: no process was sampled.                              *)
NetNotEvaluated ==
    gate.prev_net_totals =
        [pid \in DOMAIN polled.samples_before \cap MatchedPids |->
            polled.samples_before[pid]]

(* C33: the sources are tried in the order cpu, child_cpu, net and only    *)
(* the first satisfied one is recorded, the later ones not being           *)
(* evaluated; the evidence list of a tick has at most one entry, and       *)
(* "grace" stands in it only when none of the three was satisfied.         *)
C33_EvidencePriority ==
    /\ Len(polled.evidence) <= 1
    /\ Matched =>
          /\ Evidence("cpu") <=> CpuSatisfied
          /\ Evidence("child_cpu") <=> (~CpuSatisfied /\ ChildCpuSatisfied)
          /\ Evidence("net") => (~CpuSatisfied /\ ~ChildCpuSatisfied)
          /\ (Evidence("cpu") \/ Evidence("child_cpu")) => NetNotEvaluated
          /\ polled.active_now <=>
                (Evidence("cpu") \/ Evidence("child_cpu") \/ Evidence("net"))
          /\ Evidence("grace") <=> (polled.active /\ ~polled.active_now)

(* C33 witness: within the grace window of earlier evidence, on macOS with *)
(* a sample stored, a child at the CPU threshold is the only evidence: no  *)
(* process is sampled and "grace" is not added.                            *)
C33_Witness ==
    /\ Matched /\ NetEnabled
    /\ polled.samples_before # <<>>
    /\ polled.before # 0
    /\ polled.now - polled.before <= gate.config.active_grace_seconds
    /\ ~CpuSatisfied /\ ChildCpuSatisfied
    /\ polled.evidence = <<"child_cpu">>
    /\ NetNotEvaluated

(* A focus process and its child are both at the CPU threshold: "cpu"      *)
(* alone is recorded.                                                      *)
C33_WitnessCpuFirst ==
    /\ Matched
    /\ CpuSatisfied /\ ChildCpuSatisfied
    /\ polled.evidence = <<"cpu">>

(* C32: after a poll that completed its scan, the pids that hold a stored  *)
(* network sample are pids of that tick's MatchSet, none when the MatchSet *)
(* is empty, so the stored samples are never more than the matched         *)
(* processes.                                                              *)
C32_SamplesWithinMatchSet ==
    Scanned =>
        /\ DOMAIN gate.prev_net_totals \subseteq MatchedPids
        /\ polled.matches = <<>> => gate.prev_net_totals = <<>>
        /\ Cardinality(DOMAIN gate.prev_net_totals) <= Len(polled.matches)

(* C32 witness: samples were stored for two processes, the second is no    *)
(* longer matched, and only the sample of the first is left.               *)
C32_Witness ==
    /\ Scanned
    /\ DOMAIN polled.samples_before = {"100", "101"}
    /\ MatchedPids = {"100"}
    /\ DOMAIN gate.prev_net_totals = {"100"}

(***************************************************************************)
(* Properties of the reconciliation loop                                   *)
(***************************************************************************)
Ticked == tick.n > 0

InSeq(x, seq) == \E i \in 1..Len(seq) : seq[i] = x

(* C1: a tick that finds the configuration file absent or unparseable runs *)
(* with gating disabled: its block decision is false whatever the process  *)
(* activity, and a reconcile it performs leaves no managed block.          *)
C1_FailOpen ==
    (Ticked /\ ~tick.found) =>
        /\ ~tick.enabled
        /\ ~tick.block_now
        /\ (tick.applied /\ ~tick.apply_failed) => ~HasMarkerLine(hosts)

(* C1 witness: the second tick found no usable configuration while the     *)
(* focus process was idle (which blocks under the default reward mode),    *)
(* and removed the block the first tick had written.                       *)
C1_Witness ==
    /\ tick.n = 2 /\ ~tick.found
    /\ polled.running /\ ~polled.active
    /\ prevTick.block_now /\ prevTick.changed
    /\ tick.applied /\ tick.changed /\ ~HasMarkerLine(hosts)

C3_RetryAfterFailure ==
    (tick.n >= 2 /\ prevTick.apply_failed) => tick.applied

CountOf(x, seq) == Cardinality({i \in 1..Len(seq) : seq[i] = x})

C21_ErrorsKeepLoopRunning ==
    /\ pc # "raised"
    /\ pc = "exited" => (stop \/ once)

ScanFailedTick == Ticked /\ platform \in {"Darwin", "Linux"} /\ ~polled.scan_ok

LoadedProcess ==
    IF cfgFile.kind = "valid" THEN cfgFile.config.process ELSE DEFAULT_PROCESS_CONFIG

(* C23: a tick starts with a fresh matcher (last_active_at zero, no        *)
(* network samples) built for the loaded process-matching configuration if *)
(* that configuration differs from the matcher's, and otherwise with the   *)
(* matcher and the activity state the previous tick left.                  *)
C23_GateRecreatedOnChange ==
    [][tick'.n # tick.n =>
          /\ gate'.config = LoadedProcess
          /\ tick'.rebuilt <=> (gate.config # LoadedProcess)
          /\ IF gate.config # LoadedProcess
             THEN polled'.before = 0 /\ polled'.samples_before = <<>>
             ELSE /\ polled'.before = gate.last_active_at
                  /\ polled'.samples_before = gate.prev_net_totals]_vars

(* C23 witness: between two ticks only the grace seconds were edited; the  *)
(* second tick dropped the activity state of the first and reports the     *)
(* idle focus process inactive although its last activity is one second    *)
(* old.                                                                    *)
C23_Witness ==
    /\ tick.n = 2 /\ tick.rebuilt
    /\ tick.carried # 0 /\ polled.now - tick.carried <= gate.config.active_grace_seconds
    /\ polled.before = 0
    /\ polled.running /\ ~polled.active

(* The other case: only reward_mode, the blocklist or enabled was edited,  *)
(* and the second tick reports the idle focus process active by grace.     *)
C23_WitnessKept ==
    /\ tick.n = 2 /\ ~tick.rebuilt
    /\ tick.reward_mode # prevTick.reward_mode
    /\ tick.carried # 0 /\ polled.before = tick.carried
    /\ polled.running /\ polled.active /\ GraceReported

(* The text ends with the managed block of the domains and has no other    *)
(* marker line.                                                            *)
BlockOf(text, domains) ==
    LET ls == splitlines(text)
        n == 2 * Len(domains) + 2
    IN  /\ Len(ls) >= n
        /\ SubSeq(ls, Len(ls) - n + 1, Len(ls)) = render_block_section(domains)
        /\ Cardinality(StartLines(text)) = 1
        /\ Cardinality(EndLines(text)) = 1

TickDone == tick.n > 0 /\ pc \in {"loop", "exited"}

BlockWanted == tick.block_now /\ tick.domains # <<>>

C34_WitnessRemoved ==
    /\ TickDone /\ ~BlockWanted /\ tick.applied /\ tick.changed
    /\ ~HasMarkerLine(hosts)

(* A save is under way: the file was opened and the payload is not yet     *)
(* written.                                                                *)
Saving == writer.fn = "save_config" /\ writer.phase = "opened"

TickTaken == tick'.n = tick.n + 1

(* C36 as stated: a tick whose reload falls inside a save of a valid       *)
(* configuration reads the file as it was before the save or as it is      *)
(* after it, and does not remove the managed block with gating switched    *)
(* off for a file it could not read.                                       *)
C36_SaveIsAtomic ==
    [][(Saving /\ TickTaken) =>
          /\ cfgFile \in {writer.old[1], ConfigFile(writer.data[1])}
          /\ ~(~tick'.found /\ HasMarkerLine(hosts) /\ ~HasMarkerLine(hosts'))]_vars

(* What happens instead is a reachable state: a tick taken during the save *)
(* found no configuration, ran with gating off and took the block of the   *)
(* previous, valid and enabled configuration out of the hosts file.        *)
C36_BlockRemovedDuringSave ==
    /\ Saving
    /\ writer.old[1].kind = "valid"
    /\ writer.old[1].config.enabled
    /\ prevTick.n > 0 /\ prevTick.found /\ prevTick.block_now
    /\ tick.n = prevTick.n + 1
    /\ ~tick.found /\ ~tick.enabled /\ tick.changed
    /\ ~HasMarkerLine(hosts)

(* C37: leaving run_loop makes no hosts-file call. After a stop signal the *)
(* step that ends the loop, and every step after it, leaves the hosts file *)
(* and the record of the last tick as they were, so a managed block        *)
(* present at that moment stays. With --once the single tick is the last   *)
(* step, and the file is what that tick's reconcile made of it.            *)
C37_ExitKeepsHosts ==
    [][pc' = "exited" =>
          IF TickTaken
          THEN /\ once
               /\ hosts' \in {hosts, new_text(hosts, tick'.domains, tick'.block_now)}
               /\ (hosts' # hosts => tick'.applied /\ tick'.changed)
          ELSE /\ hosts' = hosts
               /\ calls' = calls
               /\ tick' = tick
               /\ (HasMarkerLine(hosts) => HasMarkerLine(hosts'))]_vars

(* C37 witness: the loop has ended after a stop signal that arrived during *)
(* a tick which wrote the block, and the block is in the file.             *)
C37_Witness ==
    /\ pc = "exited"
    /\ stop /\ ~once
    /\ tick.n > 0 /\ tick.applied /\ tick.changed /\ tick.block_now
    /\ BlockOf(hosts, tick.domains)

(* The same after the single tick of --once. *)
C37_WitnessOnce ==
    /\ pc = "exited"
    /\ once /\ ~stop
    /\ tick.n = 1 /\ tick.block_now
    /\ HasMarkerLine(hosts)

Expanded == expanded.n > 0

(* The domain an entry names and, where one is due, its "www." variant. *)
WantedOf(entry, include_www) ==
    IF ~entry.wellformed THEN <<>>
    ELSE <<entry.labels>>
         \o (IF include_www /\ ~(Len(entry.labels) > 1 /\ entry.labels[1] = "www")
             THEN << <<"www">> \o entry.labels >>
             ELSE <<>>)

RECURSIVE WantedAll(_, _)
WantedAll(blocklist, include_www) ==
    IF blocklist = <<>> THEN <<>>
    ELSE WantedOf(Head(blocklist), include_www)
         \o WantedAll(Tail(blocklist), include_www)

(* A sequence without the repetitions of what stands earlier in it. *)
RECURSIVE FirstOccurrences(_)
FirstOccurrences(seq) ==
    IF seq = <<>> THEN <<>>
    ELSE LET front == FirstOccurrences(SubSeq(seq, 1, Len(seq) - 1))
         IN  IF InSeq(seq[Len(seq)], front) THEN front
             ELSE Append(front, seq[Len(seq)])

(* C25: the expanded list is, for each valid entry in blocklist order, its *)
(* normalized domain followed, when www expansion is on and the domain     *)
(* does not start with "www.", by its "www." variant, every domain once,   *)
(* at its first place; invalid entries contribute nothing and change       *)
(* nothing for the others.                                                 *)
C25_BlocklistExpansion ==
    Expanded =>
        /\ expanded.domains =
              FirstOccurrences(WantedAll(expanded.blocklist, expanded.include_www))
        /\ \A i, j \in 1..Len(expanded.domains) :
              expanded.domains[i] = expanded.domains[j] => i = j
        /\ expanded.domains =
              _expand_blocklist(SelectSeq(expanded.blocklist, LAMBDA e : e.wellformed),
                                expanded.include_www)

(* C25 witness: an invalid entry between two valid ones, the second of     *)
(* which is the "www." variant of the first, with www expansion on.        *)
C25_Witness ==
    /\ Expanded /\ expanded.include_www
    /\ Len(expanded.blocklist) = 3
    /\ expanded.blocklist[1].wellformed /\ expanded.blocklist[1].spelling = "url"
    /\ ~expanded.blocklist[2].wellformed
    /\ expanded.blocklist[3].labels = <<"www">> \o expanded.blocklist[1].labels
    /\ expanded.domains = <<expanded.blocklist[1].labels, expanded.blocklist[3].labels>>

(***************************************************************************)
(* Properties of the native stdio host                                     *)
(***************************************************************************)
(* The ids of the polls in a sequence of messages, in order. *)
RECURSIVE PollIds(_)
PollIds(msgs) ==
    IF msgs = <<>> THEN <<>>
    ELSE (IF Head(msgs).type = "poll" THEN <<Head(msgs).id>> ELSE <<>>)
         \o PollIds(Tail(msgs))

(* The ids that the replies on stdout answer, in order. *)
RECURSIVE ReplyIds(_)
ReplyIds(out) ==
    IF out = <<>> THEN <<>>
    ELSE (IF Head(out).reply_to # None THEN Head(out).reply_to ELSE <<>>)
         \o ReplyIds(Tail(out))

IsPrefix(s, t) == Len(s) <= Len(t) /\ SubSeq(t, 1, Len(s)) = s

HostReturned == main.pc = "returned"

(* C28: the first message on stdout is an unsolicited status; the replies  *)
(* answer the polls that the reader received, in the order of receipt and  *)
(* each at most once; and when the host has returned with stdout intact,   *)
(* every poll that the reader received before the end of the input has its *)
(* reply.                                                                  *)
C28_OneReplyPerPoll ==
    /\ stdout # <<>> => stdout[1] = Status(None)
    /\ IsPrefix(ReplyIds(stdout), PollIds(stdin.read))
    /\ (HostReturned /\ ~main.broken_pipe) =>
          ReplyIds(stdout) = PollIds(stdin.read)

(* What holds under every interleaving: the status comes first when        *)
(* anything is sent, and the replies are a prefix of the received polls.   *)
C28_RepliesInOrder ==
    /\ stdout # <<>> => stdout[1] = Status(None)
    /\ IsPrefix(ReplyIds(stdout), PollIds(stdin.read))

(* The host has returned with stdout intact, having sent its first status, *)
(* and a poll that the reader received has no reply.                       *)
C28_PollLost ==
    /\ HostReturned /\ ~main.broken_pipe
    /\ stdout # <<>>
    /\ Len(ReplyIds(stdout)) < Len(PollIds(stdin.read))

(* The host has returned with stdout intact without having sent anything:  *)
(* the reader set the stop event before the first test of the main loop.   *)
C28_NothingSent ==
    /\ HostReturned /\ ~main.broken_pipe
    /\ stdout = <<>>

(* The host has returned with stdout intact and every received poll has    *)
(* its reply.                                                              *)
C28_AllAnswered ==
    /\ HostReturned /\ ~main.broken_pipe
    /\ PollIds(stdin.read) # <<>>
    /\ ReplyIds(stdout) = PollIds(stdin.read)

(***************************************************************************)
(* Properties of the block probe                                           *)
(***************************************************************************)
Probed == probed.n = 1

(* The marker stands in a line that is longer than the marker. *)
MarkerInsideLongerLine(text, marker) ==
    \E i \in 1..Len(splitlines(text)) :
        /\ Contains(splitlines(text)[i], marker)
        /\ strip(splitlines(text)[i]) # marker

(* C27: hosts_has_block is true exactly when the file exists and has both  *)
(* a start-marker line and an end-marker line; it is false for a file in   *)
(* which the marker text stands only inside longer lines.                  *)
C27_BlockProbe ==
    Probed =>
        (probed.result <=>
            /\ probed.exists
            /\ StartLines(hosts) # {}
            /\ EndLines(hosts) # {})

(* A probe of a file with no marker line that has both marker texts inside *)
(* longer lines answers true.                                              *)
C27_TrueWithoutMarkerLines ==
    /\ Probed /\ probed.exists /\ probed.result
    /\ StartLines(hosts) = {}
    /\ EndLines(hosts) = {}
    /\ MarkerInsideLongerLine(hosts, MANAGED_START)
    /\ MarkerInsideLongerLine(hosts, MANAGED_END)

(* What the claim states holds in one direction: a file with both marker   *)
(* lines is reported, and a missing file is not.                           *)
C27_MarkerLinesAreFound ==
    Probed =>
        /\ (probed.exists /\ StartLines(hosts) # {}
               /\ EndLines(hosts) # {}) => probed.result
        /\ ~probed.exists => ~probed.result

(***************************************************************************)
(* Properties of the duration parser                                       *)
(***************************************************************************)
Parsed == parsed.n = 1

Rejected == [raised |-> TRUE, value |-> 0]

(* The unit a character spells, in either case. *)
UnitOf(c) == IF c = "H" THEN "h" ELSE c

(* A left-to-right reading of a duration text by its grammar: tokens of    *)
(* digits and a unit, blanks before, between and after the tokens and,     *)
(* when inner_blanks holds, between the digits of a token and its unit.    *)
(* where is "outside" a token, in its "digits", or in the "blanks" that    *)
(* follow its digits.                                                      *)
RECURSIVE Reading(_, _, _, _, _, _)
Reading(text, i, where, amount, total, inner_blanks) ==
    IF i > Len(text)
    THEN (IF where = "outside" /\ total > 0
          THEN [raised |-> FALSE, value |-> total]
          ELSE Rejected)
    ELSE LET c == text[i]
         IN  IF where = "outside"
             THEN (IF c = "SP" THEN Reading(text, i + 1, "outside", 0, total, inner_blanks)
                   ELSE IF c \in Digits
                   THEN Reading(text, i + 1, "digits", DigitValue(c), total, inner_blanks)
                   ELSE Rejected)
             ELSE IF c \in Digits /\ where = "digits"
             THEN Reading(text, i + 1, "digits", 10 * amount + DigitValue(c), total,
                          inner_blanks)
             ELSE IF c = "SP" /\ inner_blanks
             THEN Reading(text, i + 1, "blanks", amount, total, inner_blanks)
             ELSE IF UnitOf(c) \in Units /\ amount > 0
             THEN Reading(text, i + 1, "outside", 0,
                          total + amount * UnitSeconds(UnitOf(c)), inner_blanks)
             ELSE Rejected

ParseResult == [raised |-> parsed.raised, value |-> parsed.value]

(* C26 as stated: the call accepts exactly the texts made of one or more   *)
(* tokens <positive integer><unit>, in either case, with blanks only       *)
(* between the tokens (and around the text), and returns the sum of        *)
(* amount times unit seconds; every other text raises and yields no value. *)
C26_DurationGrammar ==
    Parsed => ParseResult = Reading(parsed.text, 1, "outside", 0, 0, FALSE)

(* C26 amended: the same with blanks allowed also between the integer of a *)
(* token and its unit.                                                     *)
C26_DurationGrammarInnerBlanks ==
    Parsed => ParseResult = Reading(parsed.text, 1, "outside", 0, 0, TRUE)

(* C26 witness: "3h 30m" with a blank before each unit and around the text *)
(* is accepted as three and a half hours.                                  *)
C26_Witness ==
    /\ Parsed
    /\ parsed.text = <<"3", "SP", "h", "SP", "3", "0", "SP", "m", "SP">>
    /\ ~parsed.raised
    /\ parsed.value = 12600

(* A text whose only fault is an amount of zero in its second token raises. *)
C26_WitnessRejected ==
    /\ Parsed
    /\ parsed.text = <<"3", "h", "0", "m">>
    /\ parsed.raised

(***************************************************************************)
(* Properties of the file writes                                           *)
(***************************************************************************)
(* C6: a reader of the hosts file or of the state file at any point of a   *)
(* write reads the complete previous content or the complete new content,  *)
(* and so does whoever looks at the file after a crash at any point of the *)
(* write: the file is never partially written.                             *)
C6_AtomicWrites ==
    /\ observed.seen => observed.content \in {observed.old, observed.new}
    /\ writer.phase # "idle" => fs[writer.path] \in {writer.old, Some(writer.data)}

(***************************************************************************)
(* Properties of the decision engine                                       *)
(***************************************************************************)
WindowStart == windowed.window.start_h * 60 + windowed.window.start_m
WindowEnd == windowed.window.end_h * 60 + windowed.window.end_m
WindowAnswered == windowed.n > 0 /\ ~windowed.raised

(* C16: for a valid window and a minute of the day now, the window is      *)
(* active iff start < end and start <= now < end, or start > end and       *)
(* (now >= start or now < end); the start minute is inside the window and  *)
(* the end minute outside it.                                              *)
C16_TimeWindow ==
    WindowAnswered =>
        /\ windowed.active <=>
              \/ WindowStart < WindowEnd /\ WindowStart <= windowed.now_minutes
                                         /\ windowed.now_minutes < WindowEnd
              \/ WindowStart > WindowEnd /\ (\/ windowed.now_minutes >= WindowStart
                                             \/ windowed.now_minutes < WindowEnd)
        /\ windowed.now_minutes = WindowStart => windowed.active
        /\ windowed.now_minutes = WindowEnd => ~windowed.active

(* C16 witness: an overnight window asked about its end minute, which is   *)
(* outside it.                                                             *)
C16_Witness ==
    /\ WindowAnswered
    /\ WindowStart > WindowEnd
    /\ windowed.now_minutes = WindowEnd
    /\ ~windowed.active

Decided == decided.n > 0
DecidedEnabled == Decided /\ decided.config.enabled

(* Some window of the configuration contains the given minute of the day. *)
SomeWindowContains(minutes) ==
    \E i \in 1..Len(decided.config.time_blocks) :
        LET w == decided.config.time_blocks[i]
            from == w.start_h * 60 + w.start_m
            to == w.end_h * 60 + w.end_m
        IN  IF from < to THEN from <= minutes /\ minutes < to
            ELSE minutes >= from \/ minutes < to

(* C12: with gating disabled block_decision returns should_block = false,  *)
(* no reasons and the three flags false, whatever process_active,          *)
(* reward_mode, the timer deadline, the time windows and now are.          *)
C12_DisabledAllows ==
    (Decided /\ ~decided.config.enabled) =>
        decided.decision = [should_block |-> FALSE, reasons |-> <<>>,
                            activity_block_active |-> FALSE,
                            time_block_active |-> FALSE,
                            timer_block_active |-> FALSE]

(* C12 witness: a disabled configuration in which the timer, a window and  *)
(* the activity rule would each have blocked.                              *)
C12_Witness ==
    /\ Decided /\ ~decided.config.enabled
    /\ decided.config.block_until_unix > decided.ts
    /\ SomeWindowContains(LocalMinutes(decided.wall))
    /\ decided.config.reward_mode /\ ~decided.process_active
    /\ ~decided.decision.should_block

FlagOf(reason) ==
    CASE reason = "timer" -> decided.decision.timer_block_active
      [] reason = "time_block" -> decided.decision.time_block_active
      [] reason = "activity" -> decided.decision.activity_block_active

C17_FunctionOfNow ==
    /\ DecidedEnabled =>
          (decided.decision.time_block_active <=>
              SomeWindowContains(LocalMinutes(decided.ts)))
    /\ (decided.n >= 2 /\ decided.now_unix # None) =>
          decided.decision = prevDecided.decision

====
